---- MODULE Spec2Model ----
(***************************************************************************)
(* RTMPConnection of examples/obs/server.ts: the handshake, the chunk      *)
(* stream reassembly loop and the handling of completed messages, driven   *)
(* by a client that writes a handshake and chunks to the socket and by the *)
(* socket's data events, which deliver the written bytes in any split.     *)
(*                                                                         *)
(* Bytes are the naturals 0..255 and a Buffer is a sequence of bytes.      *)
(* Offsets are 0-based as in the source: Byte(buf, i) is buf[i].           *)
(*                                                                         *)
(* Two sizes of the source are scaled down so that the cases they guard    *)
(* happen within a finite search; every definition uses them by name only: *)
(*   RTMP_HANDSHAKE_SIZE  1536 in the source (server.ts:9)                 *)
(*   InitialChunkSize      128 in the source (server.ts:289-290)           *)
(* MaxChunkBytes bounds the chunk bytes the client writes, MaxInFlight the *)
(* bytes that may be waiting for a data event when it writes a chunk.      *)
(***************************************************************************)
EXTENDS Integers, Sequences, FiniteSets, TLC

\* ------------------------------------------------------------ bounds ----
RTMP_HANDSHAKE_SIZE == 9
InitialChunkSize == 4
MaxChunkBytes == 41
MaxInFlight == 4
MaxCommands == 3
MaxPublishes == 2
MaxCommandBytesInFlight == 50
AckMargin == 12
MaxArguments == 2
MaxAckBytes == 19

\* --------------------------------------------------------- constants ----
RTMP_VERSION == 3
MSG_SET_CHUNK_SIZE == 1
MSG_ABORT == 2
MSG_ACK == 3
MSG_USER_CONTROL == 4
MSG_WINDOW_ACK_SIZE == 5
MSG_SET_PEER_BW == 6
MSG_AUDIO == 8
MSG_VIDEO == 9
MSG_AMF3_DATA == 15
MSG_AMF3_CMD == 17
MSG_AMF0_DATA == 18
MSG_AMF0_CMD == 20
InitialWindowAckSize == 2500000
InitialPeerBandwidth == 2500000
ServerChunkSize == 4096

\* enum HandshakeState
UNINITIALIZED == 0
VERSION_SENT == 1
ACK_SENT == 2
HANDSHAKE_DONE == 3

VARIABLES
  conn,      \* the RTMPConnection object, its socket and what it has done
  wire,      \* bytes the client has written that no data event has delivered yet
  sent,      \* every chunk byte the client has written after its handshake
  snd,       \* the client's side of the chunk stream
  expected,  \* the messages the client has finished sending, in order
  call       \* a function applied on its own: its arguments and its results;
             \* or the handleData calls that are suspended at an await

vars == <<conn, wire, sent, snd, expected, call>>

\* ----------------------------------------------------- Buffer helpers ----
Byte(buf, i) == buf[i + 1]

\* buf.subarray(from, to)
Subarray(buf, from, to) ==
  IF to <= from THEN <<>>
  ELSE [k \in 1..((IF to > Len(buf) THEN Len(buf) ELSE to) - from) |-> buf[from + k]]

\* buf.subarray(from)
SubarrayFrom(buf, from) == Subarray(buf, from, Len(buf))

RECURSIVE ReadUIntBE(_, _, _)
ReadUIntBE(buf, offset, n) ==
  IF n = 0 THEN 0
  ELSE ReadUIntBE(buf, offset, n - 1) * 256 + Byte(buf, offset + n - 1)

\* buf.readUInt32BE(offset) & 0x7fffffff: the mask clears the top bit of the
\* first byte
ReadUInt32BEMasked31(buf, offset) ==
  (Byte(buf, offset) % 128) * 16777216 + ReadUIntBE(buf, offset + 1, 3)

\* buf.readUInt32BE(offset).  A value of 2^31 or more is held as the value
\* minus 2^32, the integer with the same 32 bits
ReadUInt32BE(buf, offset) ==
  (IF Byte(buf, offset) >= 128 THEN Byte(buf, offset) - 256 ELSE Byte(buf, offset))
    * 16777216 + ReadUIntBE(buf, offset + 1, 3)

RECURSIVE ReadUIntLE(_, _, _)
ReadUIntLE(buf, offset, n) ==
  IF n = 0 THEN 0
  ELSE Byte(buf, offset) + 256 * ReadUIntLE(buf, offset + 1, n - 1)

ReadUInt32LE(buf, offset) == ReadUIntLE(buf, offset, 4)

RECURSIVE WriteUIntBE(_, _)
WriteUIntBE(v, n) ==
  IF n = 0 THEN <<>> ELSE Append(WriteUIntBE(v \div 256, n - 1), v % 256)

Min(a, b) == IF a <= b THEN a ELSE b

\* Map.get(k) || 0
GetOr0(map, k) == IF k \in DOMAIN map THEN map[k] ELSE 0

\* Map.set on a map that keeps one slot for all keys
MapSet_OneSlot(map, k, v) == [x \in (DOMAIN map) \cup {k} |-> v]

\* Map.set(k, v)
MapSet(map, k, v) == [x \in (DOMAIN map) \cup {k} |-> IF x = k THEN v ELSE map[x]]

\* Map.delete(k)
MapDelete(map, k) == [x \in (DOMAIN map) \ {k} |-> map[x]]

EmptyMap == [x \in {} |-> 0]

\* ------------------------------------------------ strings and AMF0 ----
\* A string is the sequence of its code points; these are the string literals
\* of the source and of the client, spelled out.
STR_connect == <<99, 111, 110, 110, 101, 99, 116>>  \* "connect"
STR_releaseStream == <<114, 101, 108, 101, 97, 115, 101, 83, 116, 114, 101, 97, 109>>  \* "releaseStream"
STR_FCPublish == <<70, 67, 80, 117, 98, 108, 105, 115, 104>>  \* "FCPublish"
STR_createStream == <<99, 114, 101, 97, 116, 101, 83, 116, 114, 101, 97, 109>>  \* "createStream"
STR_publish == <<112, 117, 98, 108, 105, 115, 104>>  \* "publish"
STR_result == <<95, 114, 101, 115, 117, 108, 116>>  \* "_result"
STR_onStatus == <<111, 110, 83, 116, 97, 116, 117, 115>>  \* "onStatus"
STR_default == <<100, 101, 102, 97, 117, 108, 116>>  \* "default"
STR_fmsVer == <<102, 109, 115, 86, 101, 114>>  \* "fmsVer"
STR_FMS == <<70, 77, 83, 47, 51, 44, 53, 44, 55, 44, 55, 48, 48, 57>>  \* "FMS/3,5,7,7009"
STR_capabilities == <<99, 97, 112, 97, 98, 105, 108, 105, 116, 105, 101, 115>>  \* "capabilities"
STR_mode == <<109, 111, 100, 101>>  \* "mode"
STR_level == <<108, 101, 118, 101, 108>>  \* "level"
STR_status == <<115, 116, 97, 116, 117, 115>>  \* "status"
STR_code == <<99, 111, 100, 101>>  \* "code"
STR_ConnectSuccess == <<78, 101, 116, 67, 111, 110, 110, 101, 99, 116, 105, 111, 110, 46, 67, 111, 110, 110, 101, 99, 116, 46, 83, 117, 99, 99, 101, 115, 115>>  \* "NetConnection.Connect.Success"
STR_description == <<100, 101, 115, 99, 114, 105, 112, 116, 105, 111, 110>>  \* "description"
STR_ConnectionSucceeded == <<67, 111, 110, 110, 101, 99, 116, 105, 111, 110, 32, 115, 117, 99, 99, 101, 101, 100, 101, 100>>  \* "Connection succeeded"
STR_objectEncoding == <<111, 98, 106, 101, 99, 116, 69, 110, 99, 111, 100, 105, 110, 103>>  \* "objectEncoding"
STR_PublishStart == <<78, 101, 116, 83, 116, 114, 101, 97, 109, 46, 80, 117, 98, 108, 105, 115, 104, 46, 83, 116, 97, 114, 116>>  \* "NetStream.Publish.Start"
STR_StreamIsNowPublished == <<83, 116, 114, 101, 97, 109, 32, 105, 115, 32, 110, 111, 119, 32, 112, 117, 98, 108, 105, 115, 104, 101, 100>>  \* "Stream is now published"
STR_details == <<100, 101, 116, 97, 105, 108, 115>>  \* "details"
STR_mystream == <<109, 121, 115, 116, 114, 101, 97, 109>>  \* "mystream"
STR_play == <<112, 108, 97, 121>>  \* "play"

\* buf.toString("utf8", from, to): the range is clamped to the buffer; a byte
\* below 128 is its own code point and a byte that is no UTF-8 sequence on
\* its own decodes to U+FFFD
Utf8ToString(buf, from, to) ==
  [i \in 1..Len(Subarray(buf, from, to)) |->
     IF Byte(buf, from + i - 1) < 128 THEN Byte(buf, from + i - 1) ELSE 65533]

\* Buffer.from(str, "utf8")
RECURSIVE StringToUtf8(_)
StringToUtf8(str) ==
  IF str = <<>> THEN <<>>
  ELSE (IF Head(str) < 128 THEN <<Head(str)>> ELSE <<239, 191, 189>>)
         \o StringToUtf8(Tail(str))

\* A JavaScript number is held as the 8 bytes of its IEEE-754 double, every
\* NaN as the one NaN the engine writes.
NaN == <<127, 248, 0, 0, 0, 0, 0, 0>>

IsNaNBytes(b) ==
  /\ b[1] % 128 = 127 /\ b[2] \div 16 = 15
  /\ (b[2] % 16 # 0 \/ \E i \in 3..8 : b[i] # 0)

\* buf.readDoubleBE(offset), for offset + 8 <= buf.length
ReadDoubleBE(buf, offset) ==
  IF IsNaNBytes(Subarray(buf, offset, offset + 8)) THEN NaN
  ELSE Subarray(buf, offset, offset + 8)

\* buf.writeDoubleBE(value)
WriteDoubleBE(value) == value

RECURSIVE Log2(_)
Log2(n) == IF n < 2 THEN 0 ELSE 1 + Log2(n \div 2)

RECURSIVE Pow2(_)
Pow2(e) == IF e = 0 THEN 1 ELSE 2 * Pow2(e - 1)

\* The double of a natural number below 2^20: sign 0, exponent 1023 + e,
\* and the bits of n below its leading bit at the top of the mantissa
Mantissa20(n) == (n - Pow2(Log2(n))) * Pow2(20 - Log2(n))

NumberOfNat(n) ==
  IF n = 0 THEN <<0, 0, 0, 0, 0, 0, 0, 0>>
  ELSE <<(1023 + Log2(n)) \div 16,
         ((1023 + Log2(n)) % 16) * 16 + Mantissa20(n) \div 65536,
         (Mantissa20(n) \div 256) % 256,
         Mantissa20(n) % 256, 0, 0, 0, 0>>

\* The values parseAMF0 builds and encodeAMF0 reads, by typeof: t is the kind
\* and v the content (code points, the double's bytes, <<1>> or <<0>> for a
\* boolean, the properties in insertion order for an object).
StringValue(str) == [t |-> "string", v |-> str]
NumberValue(d) == [t |-> "number", v |-> d]
BooleanValue(b) == [t |-> "boolean", v |-> IF b THEN <<1>> ELSE <<0>>]
NullValue == [t |-> "null", v |-> <<>>]
ObjectValue(props) == [t |-> "object", v |-> props]

\* obj[propName] = value: a new key goes last, a known key keeps its place
ObjectSet(props, propName, value) ==
  IF \E i \in 1..Len(props) : props[i].key = propName
  THEN [i \in 1..Len(props) |->
          IF props[i].key = propName THEN [key |-> propName, value |-> value]
          ELSE props[i]]
  ELSE Append(props, [key |-> propName, value |-> value])

\* !value
IsFalsy(value) ==
  \/ value.t = "null"
  \/ value.t = "string" /\ value.v = <<>>
  \/ value.t = "boolean" /\ value.v = <<0>>
  \/ value.t = "number" /\ (value.v = NaN \/ (value.v[1] % 128 = 0
                                               /\ \A i \in 2..8 : value.v[i] = 0))

\* ------------------------------------------------------- parseAMF0 ----
\* A parser's result has ok FALSE where the source throws.
RECURSIVE ParseObject(_, _, _)
RECURSIVE ParseArgs(_, _, _)

\* Lines 794-811: the value of the property propName, its type byte at offset
ParseProperty(buffer, offset, propName, props) ==
  IF offset < Len(buffer) /\ Byte(buffer, offset) = 2 THEN
    IF offset + 3 > Len(buffer) THEN [ok |-> FALSE]
    ELSE ParseObject(buffer, offset + 3 + ReadUIntBE(buffer, offset + 1, 2),
           ObjectSet(props, propName,
             StringValue(Utf8ToString(buffer, offset + 3,
                           offset + 3 + ReadUIntBE(buffer, offset + 1, 2)))))
  ELSE IF offset < Len(buffer) /\ Byte(buffer, offset) = 0 THEN
    IF offset + 9 > Len(buffer) THEN [ok |-> FALSE]
    ELSE ParseObject(buffer, offset + 9,
           ObjectSet(props, propName, NumberValue(ReadDoubleBE(buffer, offset + 1))))
  ELSE IF offset < Len(buffer) /\ Byte(buffer, offset) = 1 THEN
    ParseObject(buffer, offset + 2,
      ObjectSet(props, propName,
        BooleanValue(offset + 1 >= Len(buffer) \/ Byte(buffer, offset + 1) # 0)))
  ELSE ParseObject(buffer, offset + 1, props)

\* Lines 776-812: the properties of an object, up to its terminator or to the
\* last two bytes of the buffer
ParseObject(buffer, offset, props) ==
  IF offset < Len(buffer) - 2 THEN
    IF Byte(buffer, offset) = 0 /\ Byte(buffer, offset + 1) = 0
         /\ Byte(buffer, offset + 2) = 9
    THEN [ok |-> TRUE, offset |-> offset + 3, props |-> props]
    ELSE ParseProperty(buffer, offset + 2 + ReadUIntBE(buffer, offset, 2),
           Utf8ToString(buffer, offset + 2, offset + 2 + ReadUIntBE(buffer, offset, 2)),
           props)
  ELSE [ok |-> TRUE, offset |-> offset, props |-> props]

\* Line 813: the parsed object joins the arguments
PushObject(buffer, r, args) ==
  IF r.ok THEN ParseArgs(buffer, r.offset, Append(args, ObjectValue(r.props)))
  ELSE [ok |-> FALSE]

\* Lines 761-821: the arguments, up to the last byte of the buffer
ParseArgs(buffer, offset, args) ==
  IF offset < Len(buffer) - 1 THEN
    CASE Byte(buffer, offset) = 2 ->
           IF offset + 3 > Len(buffer) THEN [ok |-> FALSE]
           ELSE ParseArgs(buffer, offset + 3 + ReadUIntBE(buffer, offset + 1, 2),
                  Append(args, StringValue(Utf8ToString(buffer, offset + 3,
                                  offset + 3 + ReadUIntBE(buffer, offset + 1, 2)))))
      [] Byte(buffer, offset) = 5 ->
           ParseArgs(buffer, offset + 1, Append(args, NullValue))
      [] Byte(buffer, offset) = 3 ->
           PushObject(buffer, ParseObject(buffer, offset + 1, <<>>), args)
      [] Byte(buffer, offset) = 0 ->
           IF offset + 9 > Len(buffer) THEN [ok |-> FALSE]
           ELSE ParseArgs(buffer, offset + 9,
                  Append(args, NumberValue(ReadDoubleBE(buffer, offset + 1))))
      [] OTHER -> [ok |-> TRUE, args |-> args]
  ELSE [ok |-> TRUE, args |-> args]

\* Line 823
ParsedCommand(command, transactionId, r) ==
  IF r.ok
  THEN [ok |-> TRUE, command |-> command, transactionId |-> transactionId,
        args |-> r.args]
  ELSE [ok |-> FALSE]

\* Lines 753-823: the transaction id at offset and what follows it
ParseTransactionId(buffer, offset, command) ==
  IF offset >= Len(buffer) \/ Byte(buffer, offset) # 0 THEN [ok |-> FALSE]
  ELSE IF offset + 9 > Len(buffer) THEN [ok |-> FALSE]
  ELSE ParsedCommand(command, ReadDoubleBE(buffer, offset + 1),
                     ParseArgs(buffer, offset + 9, <<>>))

parseAMF0(buffer) ==
  IF Len(buffer) = 0 \/ Byte(buffer, 0) # 2 THEN [ok |-> FALSE]
  ELSE IF Len(buffer) < 3 THEN [ok |-> FALSE]
  ELSE ParseTransactionId(buffer, 3 + ReadUIntBE(buffer, 1, 2),
                          Utf8ToString(buffer, 3, 3 + ReadUIntBE(buffer, 1, 2)))

\* ------------------------------------------------------- encodeAMF0 ----
\* Lines 939-953: a property's value; a value that is no string, number or
\* boolean leaves its key without a value
EncodePropertyValue(value) ==
  CASE value.t = "string" ->
         <<2>> \o WriteUIntBE(Len(StringToUtf8(value.v)), 2) \o StringToUtf8(value.v)
    [] value.t = "number" -> <<0>> \o WriteDoubleBE(value.v)
    [] value.t = "boolean" -> <<1>> \o value.v
    [] OTHER -> <<>>

\* Lines 933-954
RECURSIVE EncodeProperties(_)
EncodeProperties(props) ==
  IF props = <<>> THEN <<>>
  ELSE WriteUIntBE(Len(StringToUtf8(Head(props).key)), 2)
         \o StringToUtf8(Head(props).key)
         \o EncodePropertyValue(Head(props).value)
         \o EncodeProperties(Tail(props))

\* Lines 920-957: one argument; a string argument has no branch and adds
\* nothing
EncodeArgument(arg) ==
  CASE arg.t = "null" -> <<5>>
    [] arg.t = "number" -> <<0>> \o WriteDoubleBE(arg.v)
    [] arg.t = "boolean" -> <<1>> \o arg.v
    [] arg.t = "object" -> <<3>> \o EncodeProperties(arg.v) \o <<0, 0, 9>>
    [] OTHER -> <<>>

RECURSIVE EncodeArguments(_)
EncodeArguments(args) ==
  IF args = <<>> THEN <<>>
  ELSE EncodeArgument(Head(args)) \o EncodeArguments(Tail(args))

encodeAMF0(command, transactionId, args) ==
  <<2>> \o WriteUIntBE(Len(StringToUtf8(command)), 2) \o StringToUtf8(command)
    \o <<0>> \o WriteDoubleBE(transactionId)
    \o EncodeArguments(args)

\* ------------------------------------------------------- the socket ----
SocketWrite(c, bytes) == [c EXCEPT !.written = Append(@, bytes)]

sendControlMessage(c, csid, messageType, payload) ==
  SocketWrite(c,
    <<csid % 64>> \o WriteUIntBE(0, 3) \o WriteUIntBE(Len(payload), 3)
      \o <<messageType>> \o <<0, 0, 0, 0>> \o payload)

sendSetChunkSize(c, size) ==
  [sendControlMessage(c, 2, MSG_SET_CHUNK_SIZE, WriteUIntBE(size, 4))
     EXCEPT !.chunkSize = size]

sendWindowAckSize(c, size) ==
  sendControlMessage(c, 2, MSG_WINDOW_ACK_SIZE, WriteUIntBE(size, 4))

sendSetPeerBandwidth(c, size, limitType) ==
  sendControlMessage(c, 2, MSG_SET_PEER_BW, WriteUIntBE(size, 4) \o <<limitType>>)

\* The counters bytesReceived and lastAckSent are held as distances from
\* c.countedFrom * 65536 bytes, so that counts of 2^31 and more can be held:
\* this is the upper half of the 32-bit value of such a count
UInt32High(c, bytes) == c.countedFrom + bytes \div 65536

\* payload.writeUInt32BE(bytes, 0) in sendAck: a count above 0xFFFFFFFF is
\* out of the range of writeUInt32BE.  A build that checks the range throws
\* (c.rejected: the exception leaves handleData); one that does not writes
\* the low 32 bits.
sendAck(c, bytes) ==
  IF UInt32High(c, bytes) < 65536 \/ ~c.rangeChecked
  THEN sendControlMessage(c, 2, MSG_ACK,
         WriteUIntBE(UInt32High(c, bytes) % 65536, 2) \o WriteUIntBE(bytes % 65536, 2))
  ELSE [c EXCEPT !.rejected = TRUE]

\* sendServerConfig that announces the bandwidth before the window
sendServerConfig_BandwidthFirst(c) ==
  sendWindowAckSize(
    sendSetPeerBandwidth(sendSetChunkSize(c, ServerChunkSize), c.peerBandwidth, 2),
    c.windowAckSize)

\* Lines 388-394
sendServerConfig(c) ==
  sendSetPeerBandwidth(
    sendWindowAckSize(sendSetChunkSize(c, ServerChunkSize), c.windowAckSize),
    c.peerBandwidth, 2)

\* ------------------------------------------- completed messages ----
\* The 12-byte header of sendCommandResponse before its payload
CommandResponseHeader(csid, payload) ==
  <<csid % 64>> \o WriteUIntBE(0, 3) \o WriteUIntBE(Len(payload), 3)
    \o <<MSG_AMF0_CMD>> \o <<0, 0, 0, 0>>

\* A response that carries transaction id 0 whatever the request's was
sendCommandResponse_ZeroTransactionId(c, csid, command, transactionId, args) ==
  SocketWrite(c,
    CommandResponseHeader(csid, encodeAMF0(command, NumberOfNat(0), args))
      \o encodeAMF0(command, NumberOfNat(0), args))

sendCommandResponse(c, csid, command, transactionId, args) ==
  SocketWrite(c,
    CommandResponseHeader(csid, encodeAMF0(command, transactionId, args))
      \o encodeAMF0(command, transactionId, args))

\* buf.writeUIntBE(v, offset, n) on a buffer that holds offset + n bytes
BufferWriteUIntBE(buf, v, offset, n) ==
  [i \in 1..Len(buf) |->
     IF i > offset /\ i <= offset + n THEN WriteUIntBE(v, n)[i - offset] ELSE buf[i]]

\* Buffer.alloc(n)
BufferAlloc(n) == [i \in 1..n |-> 0]

\* ------------------------------------------------- StreamProcessor ----
\* The global streamProcessor, held with the connection that reaches it.
\* initialize(streamKey) returns at once when the pipeline is initialized;
\* otherwise the call is pending until its asynchronous steps settle.
NewStreamProcessor ==
  [pipelineInitialized |-> FALSE, gstKit |-> FALSE,
   sequenceHeaderReceived |-> FALSE, streamingStarted |-> FALSE,
   initializeCalls |-> <<>>, pending |-> <<>>, failures |-> <<>>, pipelines |-> 0,
   calls |-> <<>>, pushed |-> <<>>]

initialize(sp, streamKey) ==
  [sp EXCEPT !.initializeCalls = Append(@, streamKey),
             !.pending = IF sp.pipelineInitialized THEN @ ELSE Append(@, streamKey)]

\* cleanup(): the pipeline that this.gstKit refers to is stopped
cleanup(sp) ==
  IF sp.pipelineInitialized /\ sp.gstKit
  THEN [sp EXCEPT !.gstKit = FALSE, !.pipelineInitialized = FALSE,
                  !.pipelines = @ - 1]
  ELSE sp

RemoveAt(s, i) == [k \in 1..(Len(s) - 1) |-> IF k < i THEN s[k] ELSE s[k + 1]]

\* Lines 93-126: the pending call i runs to its end.  sp.pipelines counts the
\* pipelines that were created and started (new GstKit, setPipeline, play)
\* and not stopped since
initializeResolves(sp, i) ==
  [sp EXCEPT !.pending = RemoveAt(@, i), !.gstKit = TRUE,
             !.pipelineInitialized = TRUE, !.pipelines = @ + 1]

\* Lines 84-91: the pending call i finds no decoder and throws; the catch of
\* handlePublish (lines 878-880) logs it
initializeRejectsNoDecoder(sp, i) ==
  [sp EXCEPT !.pending = RemoveAt(@, i), !.failures = Append(@, sp.pending[i])]

\* Lines 127-131: the pending call i throws inside the try, which cleans up
initializeRejectsInTry(sp, i) ==
  [cleanup([sp EXCEPT !.gstKit = TRUE])
     EXCEPT !.pending = RemoveAt(@, i), !.failures = Append(@, sp.pending[i])]

\* sp.calls records each call of processAudioBuffer and processVideoBuffer
\* with its arguments
BufferCall(sp, method, arguments) ==
  [sp EXCEPT !.calls = Append(@, [method |-> method, arguments |-> arguments])]

\* Lines 226-246: the bytes after the four-byte header go to the pipeline; a
\* sequence header (AVC packet type 0) lets startStreaming start
PushSample(sp, buffer) ==
  [sp EXCEPT !.pushed = Append(@, SubarrayFrom(buffer, 4)),
             !.sequenceHeaderReceived = @ \/ Byte(buffer, 1) = 0,
             !.streamingStarted = @ \/ sp.sequenceHeaderReceived \/ Byte(buffer, 1) = 0]

\* Lines 213-251
VideoBuffer(sp, buffer) ==
  IF ~sp.pipelineInitialized \/ ~sp.gstKit THEN sp
  ELSE IF Len(buffer) > 4 THEN PushSample(sp, buffer)
  ELSE sp

processVideoBuffer(sp, buffer) ==
  VideoBuffer(BufferCall(sp, "processVideoBuffer", <<buffer>>), buffer)

\* Lines 253-256
processAudioBuffer(sp, buffer) == BufferCall(sp, "processAudioBuffer", <<buffer>>)

\* ---------------------------------------------------- the commands ----
ConnectProperties ==
  <<[key |-> STR_fmsVer, value |-> StringValue(STR_FMS)],
    [key |-> STR_capabilities, value |-> NumberValue(NumberOfNat(31))],
    [key |-> STR_mode, value |-> NumberValue(NumberOfNat(1))]>>

ConnectStatus ==
  <<[key |-> STR_level, value |-> StringValue(STR_status)],
    [key |-> STR_code, value |-> StringValue(STR_ConnectSuccess)],
    [key |-> STR_description, value |-> StringValue(STR_ConnectionSucceeded)],
    [key |-> STR_objectEncoding, value |-> NumberValue(NumberOfNat(0))]>>

handleConnect(c, csid, transactionId, args) ==
  sendCommandResponse(c, csid, STR_result, transactionId,
    <<ObjectValue(ConnectProperties), ObjectValue(ConnectStatus)>>)

PublishStatus(streamKey) ==
  <<[key |-> STR_level, value |-> StringValue(STR_status)],
    [key |-> STR_code, value |-> StringValue(STR_PublishStart)],
    [key |-> STR_description, value |-> StringValue(STR_StreamIsNowPublished)],
    [key |-> STR_details, value |-> streamKey]>>

\* args[0] with "default" only where there is no argument
StreamKeyOf_NoDefault(args) ==
  IF Len(args) = 0 THEN StringValue(STR_default) ELSE args[1]

\* Line 855: args[0] || "default"
StreamKeyOf(args) ==
  IF Len(args) = 0 THEN StringValue(STR_default)
  ELSE IF IsFalsy(args[1]) THEN StringValue(STR_default)
  ELSE args[1]

\* handlePublish that never signals the pipeline
PublishAs_NoInitialize(c, csid, streamKey) ==
  sendControlMessage(
    sendCommandResponse([c EXCEPT !.streamKey = streamKey], csid, STR_onStatus,
      NumberOfNat(0), <<NullValue, ObjectValue(PublishStatus(streamKey))>>),
    4, MSG_USER_CONTROL,
    BufferWriteUIntBE(BufferWriteUIntBE(BufferAlloc(6), 0, 0, 2), 1, 0, 4))

\* Lines 856-880 for the stream key of line 855
PublishAs(c, csid, streamKey) ==
  [sendControlMessage(
     sendCommandResponse([c EXCEPT !.streamKey = streamKey], csid, STR_onStatus,
       NumberOfNat(0), <<NullValue, ObjectValue(PublishStatus(streamKey))>>),
     4, MSG_USER_CONTROL,
     BufferWriteUIntBE(BufferWriteUIntBE(BufferAlloc(6), 0, 0, 2), 1, 0, 4))
   EXCEPT !.streamProcessor = initialize(@, streamKey)]

\* A publish whose initialize call is awaited, by handlePublish and by
\* handleCommand in turn: the promise of handleCompleteMessage then settles
\* only when the pipeline has
handlePublish_AwaitsInitialize(c, csid, args) ==
  [PublishAs(c, csid, StreamKeyOf(args)) EXCEPT
     !.awaitsInitialize = ~c.streamProcessor.pipelineInitialized]

\* Lines 854-881.  initialize is started and not awaited (line 878), and
\* handleCommand does not await handlePublish (line 726):
\* c.awaitsInitialize, which says that the promise the loop awaits depends
\* on the pipeline, stays false
handlePublish(c, csid, args) == PublishAs(c, csid, StreamKeyOf(args))

\* createStream that answers without a Stream-Begin
CreateStream_NoStreamBegin(c, csid, transactionId) ==
  sendCommandResponse(c, csid, STR_result, transactionId,
    <<NullValue, NumberValue(NumberOfNat(1))>>)

\* Lines 713-722
CreateStream(c, csid, transactionId) ==
  sendControlMessage(
    sendCommandResponse(c, csid, STR_result, transactionId,
      <<NullValue, NumberValue(NumberOfNat(1))>>),
    4, MSG_USER_CONTROL,
    BufferWriteUIntBE(BufferWriteUIntBE(BufferAlloc(6), 0, 0, 2), 1, 2, 4))

\* A switch whose default answers the unknown command with a _result
DispatchCommand_UnknownAnswered(c, csid, r) ==
  IF ~r.ok THEN c
  ELSE CASE r.command = STR_connect -> handleConnect(c, csid, r.transactionId, r.args)
         [] r.command = STR_releaseStream ->
              sendCommandResponse(c, csid, STR_result, r.transactionId,
                                  <<NullValue, NullValue>>)
         [] r.command = STR_FCPublish ->
              sendCommandResponse(c, csid, STR_result, r.transactionId,
                                  <<NullValue, NullValue>>)
         [] r.command = STR_createStream -> CreateStream(c, csid, r.transactionId)
         [] r.command = STR_publish -> handlePublish(c, csid, r.args)
         [] OTHER -> sendCommandResponse(c, csid, STR_result, r.transactionId,
                                         <<NullValue, NullValue>>)

\* Lines 700-733: the switch on the parsed command r; a payload that
\* parseAMF0 throws on is caught and nothing is done
DispatchCommand(c, csid, r) ==
  IF ~r.ok THEN c
  ELSE CASE r.command = STR_connect -> handleConnect(c, csid, r.transactionId, r.args)
         [] r.command = STR_releaseStream ->
              sendCommandResponse(c, csid, STR_result, r.transactionId,
                                  <<NullValue, NullValue>>)
         [] r.command = STR_FCPublish ->
              sendCommandResponse(c, csid, STR_result, r.transactionId,
                                  <<NullValue, NullValue>>)
         [] r.command = STR_createStream -> CreateStream(c, csid, r.transactionId)
         [] r.command = STR_publish -> handlePublish(c, csid, r.args)
         [] OTHER -> c

\* Lines 691-694
CommandOffset(payload, isAMF3) ==
  IF isAMF3 /\ Len(payload) > 0 /\ Byte(payload, 0) = 0 THEN 1 ELSE 0

\* The connection state a command may change
CommandFrame(c) ==
  [streamKey |-> c.streamKey, chunkSize |-> c.chunkSize,
   peerChunkSize |-> c.peerChunkSize, windowAckSize |-> c.windowAckSize,
   peerBandwidth |-> c.peerBandwidth, bytesReceived |-> c.bytesReceived,
   lastAckSent |-> c.lastAckSent, handshakeState |-> c.handshakeState,
   ended |-> c.ended, buffer |-> c.buffer,
   lastTimestamp |-> c.lastTimestamp, lastMessageLength |-> c.lastMessageLength,
   lastMessageType |-> c.lastMessageType,
   lastMessageStreamId |-> c.lastMessageStreamId,
   incompleteMessages |-> c.incompleteMessages,
   streamProcessor |-> c.streamProcessor]

\* c.handled records each return of handleCommand: what was parsed, the
\* state before and after, and what was written in between
CommandHandled(c, r, c1) ==
  [c1 EXCEPT !.handled = Append(@,
     [parsed |-> r, pre |-> CommandFrame(c), post |-> CommandFrame(c1),
      csid |-> c.commands[Len(c.commands)].csid,
      writtenBefore |-> Len(c.written), writtenAfter |-> Len(c1.written)])]

\* Lines 696-733 for the parsed command r
HandleParsed(c, csid, r) == CommandHandled(c, r, DispatchCommand(c, csid, r))

\* handleCommand: c.commands records the arguments it is entered with
handleCommand(c, payload, csid, streamId, isAMF3) ==
  HandleParsed(
    [c EXCEPT !.commands = Append(@, [payload |-> payload, csid |-> csid,
                                      streamId |-> streamId, isAMF3 |-> isAMF3])],
    csid, parseAMF0(SubarrayFrom(payload, CommandOffset(payload, isAMF3))))

\* A server that takes the window the peer announces as its own
WindowAckSizeMessage_TakesSize(c, payload) ==
  IF Len(payload) >= 4 THEN [c EXCEPT !.windowAckSize = ReadUInt32BE(payload, 0)] ELSE c

\* Lines 600-605: the size is read and logged
WindowAckSizeMessage(c, payload) == c

\* Lines 592-613: the number handleCompleteMessage reads from the payload of
\* a protocol control message, if it reads one
ControlValue(messageType, payload) ==
  CASE messageType = MSG_SET_CHUNK_SIZE /\ Len(payload) >= 4 ->
         [decoded |-> TRUE, size |-> ReadUInt32BEMasked31(payload, 0)]
    [] messageType = MSG_WINDOW_ACK_SIZE /\ Len(payload) >= 4 ->
         [decoded |-> TRUE, size |-> ReadUInt32BE(payload, 0)]
    [] messageType = MSG_SET_PEER_BW /\ Len(payload) >= 5 ->
         [decoded |-> TRUE, size |-> ReadUInt32BE(payload, 0)]
    [] OTHER -> [decoded |-> FALSE, size |-> 0]

\* handleCompleteMessage that takes a new chunk size only while no partial
\* message is in progress
handleCompleteMessage_DefersChunkSize(c, messageType, payload, csid, streamId) ==
  CASE messageType = MSG_SET_CHUNK_SIZE ->
         IF Len(payload) >= 4 /\ DOMAIN c.incompleteMessages \subseteq {csid}
         THEN [c EXCEPT !.peerChunkSize = ReadUInt32BEMasked31(payload, 0)]
         ELSE c
    [] messageType = MSG_WINDOW_ACK_SIZE -> WindowAckSizeMessage(c, payload)
    [] messageType \in {MSG_AMF0_DATA, MSG_AMF3_DATA} ->
         sendAck(c, c.bytesReceived)
    [] messageType \in {MSG_AMF0_CMD, MSG_AMF3_CMD} ->
         handleCommand(c, payload, csid, streamId, messageType = MSG_AMF3_CMD)
    [] messageType = MSG_AUDIO ->
         [c EXCEPT !.streamProcessor = processAudioBuffer(@, payload)]
    [] messageType = MSG_VIDEO ->
         [c EXCEPT !.streamProcessor = processVideoBuffer(@, payload)]
    [] OTHER -> c

handleCompleteMessage(c, messageType, payload, csid, streamId) ==
  CASE messageType = MSG_SET_CHUNK_SIZE ->
         IF Len(payload) >= 4
         THEN [c EXCEPT !.peerChunkSize = ReadUInt32BEMasked31(payload, 0)]
         ELSE c
    [] messageType = MSG_WINDOW_ACK_SIZE -> WindowAckSizeMessage(c, payload)
    [] messageType \in {MSG_AMF0_DATA, MSG_AMF3_DATA} ->
         sendAck(c, c.bytesReceived)
    [] messageType \in {MSG_AMF0_CMD, MSG_AMF3_CMD} ->
         handleCommand(c, payload, csid, streamId, messageType = MSG_AMF3_CMD)
    [] messageType = MSG_AUDIO ->
         [c EXCEPT !.streamProcessor = processAudioBuffer(@, payload)]
    [] messageType = MSG_VIDEO ->
         [c EXCEPT !.streamProcessor = processVideoBuffer(@, payload)]
    [] OTHER -> c

\* ------------------------------------------ processRTMPMessagesLoop ----
Caches(c) ==
  [lastTimestamp |-> c.lastTimestamp,
   lastMessageLength |-> c.lastMessageLength,
   lastMessageType |-> c.lastMessageType,
   lastMessageStreamId |-> c.lastMessageStreamId,
   incompleteMessages |-> c.incompleteMessages]

\* The basic header at the start of the buffer: ok is FALSE where the loop
\* breaks before it knows the csid.
BasicHeader(buf) ==
  LET basicHeader == Byte(buf, 0)
      fmt == (basicHeader \div 64) % 4
      low == basicHeader % 64
  IN  IF basicHeader = 0 THEN [ok |-> FALSE]
      ELSE IF low = 0
        THEN IF Len(buf) < 2 THEN [ok |-> FALSE]
             ELSE [ok |-> TRUE, fmt |-> fmt, csid |-> Byte(buf, 1) + 64, offset |-> 2]
      ELSE IF low = 1
        THEN IF Len(buf) < 3 THEN [ok |-> FALSE]
             ELSE [ok |-> TRUE, fmt |-> fmt,
                   csid |-> Byte(buf, 2) * 256 + Byte(buf, 1) + 64, offset |-> 3]
      ELSE [ok |-> TRUE, fmt |-> fmt, csid |-> low, offset |-> 1]

\* Lines 470-473: the header values cached for csid
CachedHeader(c, csid) ==
  [timestamp |-> GetOr0(c.lastTimestamp, csid),
   messageLength |-> GetOr0(c.lastMessageLength, csid),
   messageType |-> GetOr0(c.lastMessageType, csid),
   streamId |-> GetOr0(c.lastMessageStreamId, csid)]

\* Each format's message header, read at offset: ok is FALSE where the loop
\* breaks for want of header bytes; otherwise the header's values and the
\* connection with its caches refreshed.
Format0Header(c, csid, offset) ==
  IF Len(c.buffer) < offset + 11 THEN [ok |-> FALSE]
  ELSE LET ts == ReadUIntBE(c.buffer, offset, 3)
           ml == ReadUIntBE(c.buffer, offset + 3, 3)
           mt == Byte(c.buffer, offset + 6)
           sid == ReadUInt32LE(c.buffer, offset + 7)
       IN [ok |-> TRUE, headerSize |-> offset + 11,
           timestamp |-> ts, messageLength |-> ml, messageType |-> mt, streamId |-> sid,
           c |-> [c EXCEPT !.lastTimestamp = MapSet(@, csid, ts),
                           !.lastMessageLength = MapSet(@, csid, ml),
                           !.lastMessageType = MapSet(@, csid, mt),
                           !.lastMessageStreamId = MapSet(@, csid, sid)]]

\* A format-1 header whose timestamp field is taken as absolute
Format1Header_AbsoluteTimestamp(c, csid, offset) ==
  IF Len(c.buffer) < offset + 7 THEN [ok |-> FALSE]
  ELSE LET ts == ReadUIntBE(c.buffer, offset, 3)
           ml == ReadUIntBE(c.buffer, offset + 3, 3)
           mt == Byte(c.buffer, offset + 6)
       IN [ok |-> TRUE, headerSize |-> offset + 7,
           timestamp |-> ts, messageLength |-> ml, messageType |-> mt,
           streamId |-> CachedHeader(c, csid).streamId,
           c |-> [c EXCEPT !.lastTimestamp = MapSet(@, csid, ts),
                           !.lastMessageLength = MapSet(@, csid, ml),
                           !.lastMessageType = MapSet(@, csid, mt)]]

Format1Header(c, csid, offset) ==
  IF Len(c.buffer) < offset + 7 THEN [ok |-> FALSE]
  ELSE LET ts == CachedHeader(c, csid).timestamp + ReadUIntBE(c.buffer, offset, 3)
           ml == ReadUIntBE(c.buffer, offset + 3, 3)
           mt == Byte(c.buffer, offset + 6)
       IN [ok |-> TRUE, headerSize |-> offset + 7,
           timestamp |-> ts, messageLength |-> ml, messageType |-> mt,
           streamId |-> CachedHeader(c, csid).streamId,
           c |-> [c EXCEPT !.lastTimestamp = MapSet(@, csid, ts),
                           !.lastMessageLength = MapSet(@, csid, ml),
                           !.lastMessageType = MapSet(@, csid, mt)]]

Format2Header(c, csid, offset) ==
  IF Len(c.buffer) < offset + 3 THEN [ok |-> FALSE]
  ELSE LET ts == CachedHeader(c, csid).timestamp + ReadUIntBE(c.buffer, offset, 3)
       IN [ok |-> TRUE, headerSize |-> offset + 3,
           timestamp |-> ts,
           messageLength |-> CachedHeader(c, csid).messageLength,
           messageType |-> CachedHeader(c, csid).messageType,
           streamId |-> CachedHeader(c, csid).streamId,
           c |-> [c EXCEPT !.lastTimestamp = MapSet(@, csid, ts)]]

\* A format-3 chunk that takes timestamp 0 instead of the cached one
Format3Header_ZeroTimestamp(c, csid, offset) ==
  [ok |-> TRUE, headerSize |-> offset,
   timestamp |-> 0,
   messageLength |-> CachedHeader(c, csid).messageLength,
   messageType |-> CachedHeader(c, csid).messageType,
   streamId |-> CachedHeader(c, csid).streamId,
   c |-> c]

Format3Header(c, csid, offset) ==
  [ok |-> TRUE, headerSize |-> offset,
   timestamp |-> CachedHeader(c, csid).timestamp,
   messageLength |-> CachedHeader(c, csid).messageLength,
   messageType |-> CachedHeader(c, csid).messageType,
   streamId |-> CachedHeader(c, csid).streamId,
   c |-> c]

MessageHeader(c, fmt, csid, offset) ==
  CASE fmt = 0 -> Format0Header(c, csid, offset)
    [] fmt = 1 -> Format1Header(c, csid, offset)
    [] fmt = 2 -> Format2Header(c, csid, offset)
    [] fmt = 3 -> Format3Header(c, csid, offset)

\* A message handed to handleCompleteMessage, with the timestamp the loop
\* holds for it
Dispatch(c, messageType, payload, csid, streamId, timestamp) ==
  handleCompleteMessage(
    [c EXCEPT !.dispatched = Append(@, [messageType |-> messageType, payload |-> payload,
                                        csid |-> csid, streamId |-> streamId,
                                        timestamp |-> timestamp])],
    messageType, payload, csid, streamId)

\* Line 566, which an exception thrown by handleCompleteMessage skips
DeleteIncomplete(c, csid) ==
  IF c.rejected THEN c ELSE [c EXCEPT !.incompleteMessages = MapDelete(@, csid)]

\* Lines 555-570: the chunk continues the partial message of csid, which is
\* incomplete once the chunk's bytes are added to it
ContinueMessage(c, csid, incomplete) ==
  IF incomplete.bytesReceived >= incomplete.totalLength
  THEN DeleteIncomplete(
         Dispatch([c EXCEPT !.incompleteMessages = MapSet(@, csid, incomplete)],
                  incomplete.messageType, incomplete.buffer, csid,
                  incomplete.streamId, incomplete.timestamp),
         csid)
  ELSE [c EXCEPT !.incompleteMessages = MapSet(@, csid, incomplete)]

\* Lines 541-570: the chunk's payload completes a message, starts a partial
\* message or continues one
Assemble(c, h, csid, chunkData, bytesToRead) ==
  IF csid \notin DOMAIN c.incompleteMessages
  THEN IF h.messageLength <= bytesToRead
       THEN Dispatch(c, h.messageType, chunkData, csid, h.streamId, h.timestamp)
       ELSE [c EXCEPT !.incompleteMessages =
               MapSet(@, csid, [buffer |-> chunkData, bytesReceived |-> bytesToRead,
                                totalLength |-> h.messageLength,
                                messageType |-> h.messageType,
                                timestamp |-> h.timestamp, streamId |-> h.streamId])]
  ELSE ContinueMessage(c, csid, [c.incompleteMessages[csid] EXCEPT
                                   !.buffer = @ \o chunkData,
                                   !.bytesReceived = @ + bytesToRead])

\* bytesToRead without the clamp to the bytes remaining
BytesToRead_Unclamped(remainingBytes, peerChunkSize) == peerChunkSize

\* Line 529
BytesToRead(remainingBytes, peerChunkSize) == Min(remainingBytes, peerChunkSize)

\* Line 574, which an exception thrown by sendAck skips
SetLastAckSent(c, bytes) ==
  IF c.rejected THEN c ELSE [c EXCEPT !.lastAckSent = bytes]

\* Lines 572-575, not reached when lines 541-570 threw
AckCheck(c) ==
  IF c.rejected THEN c
  ELSE IF c.bytesReceived - c.lastAckSent >= c.windowAckSize
  THEN SetLastAckSent(sendAck(c, c.bytesReceived), c.bytesReceived)
  ELSE c

\* Lines 524-528: the bytes the message of this chunk still lacks
RemainingBytes(c, csid, messageLength) ==
  IF csid \in DOMAIN c.incompleteMessages
  THEN c.incompleteMessages[csid].totalLength - c.incompleteMessages[csid].bytesReceived
  ELSE messageLength

\* Lines 577-580 and the record of the iteration: c is the connection the
\* iteration started with, c4 the connection after lines 536-575.  brk is the
\* no-progress guard, or an exception that leaves the loop.  ackDue is the
\* test of line 572 and ackCount the count of received bytes where it holds.
EndIteration(c, b, h, remainingBytes, chunkData, c4) ==
  [brk |-> c4.rejected \/ Len(c4.buffer) = Len(c.buffer),
   c |-> [c4 EXCEPT !.steps = Append(@,
            [fmt |-> b.fmt, csid |-> b.csid, offset |-> b.offset,
             headerSize |-> h.headerSize,
             timestamp |-> h.timestamp,
             messageLength |-> h.messageLength,
             messageType |-> h.messageType,
             streamId |-> h.streamId,
             chunkData |-> chunkData,
             remainingBytes |-> remainingBytes,
             peerChunkSize |-> c.peerChunkSize,
             handshakeState |-> c.handshakeState,
             dispatchedBefore |-> Len(c.dispatched),
             dispatchedAfter |-> Len(c4.dispatched),
             writtenBefore |-> Len(c.written),
             writtenAfter |-> Len(c4.written),
             ackDue |-> c.bytesReceived - c.lastAckSent >= c.windowAckSize,
             ackCount |-> IF c.bytesReceived - c.lastAckSent >= c.windowAckSize
                          THEN c.bytesReceived ELSE 0,
             rejected |-> c4.rejected,
             pre |-> Caches(c), post |-> Caches(c4)])]]

\* An iteration that reads the chunk and leaves its bytes in the buffer
ConsumeChunk_KeepsBuffer(c, b, h, remainingBytes, bytesToRead, chunkData) ==
  EndIteration(c, b, h, remainingBytes, chunkData,
    AckCheck(Assemble(h.c, h, b.csid, chunkData, bytesToRead)))

\* Lines 536-575: the chunk's payload leaves the buffer and joins its message
ConsumeChunk(c, b, h, remainingBytes, bytesToRead, chunkData) ==
  EndIteration(c, b, h, remainingBytes, chunkData,
    AckCheck(Assemble([h.c EXCEPT !.buffer = SubarrayFrom(@, h.headerSize + bytesToRead)],
                      h, b.csid, chunkData, bytesToRead)))

\* Lines 531-538: the loop breaks until the chunk's payload is buffered
ReadChunkData(c, b, h, remainingBytes, bytesToRead) ==
  IF Len(h.c.buffer) < h.headerSize + bytesToRead
  THEN [brk |-> TRUE, c |-> h.c]
  ELSE ConsumeChunk(c, b, h, remainingBytes, bytesToRead,
                    Subarray(h.c.buffer, h.headerSize, h.headerSize + bytesToRead))

\* Line 529
ReadChunk(c, b, h, remainingBytes) ==
  ReadChunkData(c, b, h, remainingBytes, BytesToRead(remainingBytes, h.c.peerChunkSize))

\* Lines 470-529: h is the message header read after the basic header b
AfterMessageHeader(c, b, h) ==
  IF ~h.ok THEN [brk |-> TRUE, c |-> c]
  ELSE ReadChunk(c, b, h, RemainingBytes(h.c, b.csid, h.messageLength))

\* Lines 447-522: b is the basic header read from the buffer
AfterBasicHeader(c, b) ==
  IF ~b.ok THEN [brk |-> TRUE, c |-> c]
  ELSE AfterMessageHeader(c, b, MessageHeader(c, b.fmt, b.csid, b.offset))

\* One iteration of the while loop on a non-empty buffer: brk says that the
\* iteration left the loop, c is the connection after it.  An iteration that
\* consumes a chunk is recorded in c.steps with what it read and the caches
\* and partial messages before and after it.
LoopIteration(c) == AfterBasicHeader(c, BasicHeader(c.buffer))

RECURSIVE processRTMPMessagesLoop(_)

\* The loop goes on after an iteration r that did not break
NextIteration(r) == IF r.brk THEN r.c ELSE processRTMPMessagesLoop(r.c)

processRTMPMessagesLoop(c) ==
  IF Len(c.buffer) > 0 THEN NextIteration(LoopIteration(c)) ELSE c

processRTMPMessages(c) == processRTMPMessagesLoop(c)

\* ---------------------------------------------------------- handshake ----
\* A handshake response whose S2 is zero bytes instead of the received c1
HandshakeResponse_NoEcho(c1, epoch, random) ==
  <<RTMP_VERSION>> \o (WriteUIntBE(epoch, 4) \o WriteUIntBE(0, 4) \o random)
    \o [i \in 1..Len(c1) |-> 0]

\* S0 + S1 + S2 for the received c1, the clock's epoch and the random bytes
HandshakeResponse(c1, epoch, random) ==
  <<RTMP_VERSION>> \o (WriteUIntBE(epoch, 4) \o WriteUIntBE(0, 4) \o random) \o c1

\* Lines 380-382: the data that follows C2 in the buffer
RemainingData(c) == IF Len(c.buffer) > 0 THEN processRTMPMessages(c) ELSE c

\* processHandshake that answers any version byte
processHandshake_AnyVersion(c, epoch, random) ==
  IF c.handshakeState = UNINITIALIZED THEN
    IF Len(c.buffer) >= 1 + RTMP_HANDSHAKE_SIZE THEN
      [SocketWrite([c EXCEPT !.buffer = SubarrayFrom(@, 1 + RTMP_HANDSHAKE_SIZE)],
                   HandshakeResponse(Subarray(c.buffer, 1, 1 + RTMP_HANDSHAKE_SIZE),
                                     epoch, random))
         EXCEPT !.handshakeState = ACK_SENT]
    ELSE c
  ELSE IF c.handshakeState = ACK_SENT THEN
    IF Len(c.buffer) >= RTMP_HANDSHAKE_SIZE THEN
      RemainingData(sendServerConfig(
                      [c EXCEPT !.buffer = SubarrayFrom(@, RTMP_HANDSHAKE_SIZE),
                                !.handshakeState = HANDSHAKE_DONE]))
    ELSE c
  ELSE c

processHandshake(c, epoch, random) ==
  IF c.handshakeState = UNINITIALIZED THEN
    IF Len(c.buffer) >= 1 + RTMP_HANDSHAKE_SIZE THEN
      IF Byte(c.buffer, 0) # RTMP_VERSION
      THEN [c EXCEPT !.ended = TRUE]
      ELSE LET c1 == Subarray(c.buffer, 1, 1 + RTMP_HANDSHAKE_SIZE)
               cc == [c EXCEPT !.buffer = SubarrayFrom(@, 1 + RTMP_HANDSHAKE_SIZE)]
           IN  [SocketWrite(cc, HandshakeResponse(c1, epoch, random))
                  EXCEPT !.handshakeState = ACK_SENT]
    ELSE c
  ELSE IF c.handshakeState = ACK_SENT THEN
    IF Len(c.buffer) >= RTMP_HANDSHAKE_SIZE THEN
      RemainingData(sendServerConfig(
                      [c EXCEPT !.buffer = SubarrayFrom(@, RTMP_HANDSHAKE_SIZE),
                                !.handshakeState = HANDSHAKE_DONE]))
    ELSE c
  ELSE c

\* handleData without the test of the handshake phase
handleData_NoPhaseTest(c, data, epoch, random) ==
  processRTMPMessages([c EXCEPT !.buffer = @ \o data, !.bytesReceived = @ + Len(data)])

\* c.rejected tells whether the promise of the last call was rejected
handleData(c, data, epoch, random) ==
  LET c1 == [c EXCEPT !.buffer = @ \o data, !.bytesReceived = @ + Len(data),
                      !.rejected = FALSE]
  IN  IF c1.handshakeState # HANDSHAKE_DONE
      THEN processHandshake(c1, epoch, random)
      ELSE processRTMPMessages(c1)

\* new RTMPConnection(socket, clientId)
NewConnection ==
  [buffer |-> <<>>, handshakeState |-> UNINITIALIZED,
   chunkSize |-> InitialChunkSize, peerChunkSize |-> InitialChunkSize,
   windowAckSize |-> InitialWindowAckSize, peerBandwidth |-> InitialPeerBandwidth,
   bytesReceived |-> 0, lastAckSent |-> 0, countedFrom |-> 0,
   rangeChecked |-> TRUE, rejected |-> FALSE, awaitsInitialize |-> FALSE,
   incompleteMessages |-> EmptyMap,
   lastMessageLength |-> EmptyMap, lastMessageType |-> EmptyMap,
   lastMessageStreamId |-> EmptyMap, lastTimestamp |-> EmptyMap,
   streamKey |-> NullValue, streamProcessor |-> NewStreamProcessor,
   written |-> <<>>, ended |-> FALSE,
   dispatched |-> <<>>, commands |-> <<>>, handled |-> <<>>, steps |-> <<>>]

\* ------------------------------------------------------- the client ----
\* What the client may send.  A chunk stream id is written in any of the
\* basic-header forms that can hold it (1, 2 or 3 bytes).
ClientVersions == {RTMP_VERSION, 6}
ClientC1 == [i \in 1..RTMP_HANDSHAKE_SIZE |-> 10 + (i % 2)]
ClientC2 == [i \in 1..RTMP_HANDSHAKE_SIZE |-> 20 + (i % 2)]
ClientCsids == {3, 66}
Forms(csid) == IF csid < 64 THEN {1} ELSE IF csid < 320 THEN {2, 3} ELSE {3}
ShortestForm(csid) == IF csid < 64 THEN 1 ELSE IF csid < 320 THEN 2 ELSE 3
ClientTimestamps == {100}
ClientDeltas == {5}
ClientStreamIds == {1}
SetChunkSizePayloads == {<<128, 0, 0, 1>>}
MessageKinds ==
  [messageType : {MSG_VIDEO}, messageLength : {InitialChunkSize, InitialChunkSize + 2},
   v : {<<>>}]
  \cup [messageType : {MSG_SET_CHUNK_SIZE}, messageLength : {4}, v : SetChunkSizePayloads]
EpochValues == {1700000000}
RandomBlocks == {[i \in 1..(RTMP_HANDSHAKE_SIZE - 8) |-> r] : r \in {7}}

BasicHeaderBytes(fmt, csid, form) ==
  CASE form = 1 -> <<fmt * 64 + csid>>
    [] form = 2 -> <<fmt * 64, csid - 64>>
    [] form = 3 -> <<fmt * 64 + 1, (csid - 64) % 256, (csid - 64) \div 256>>

\* timestamp is the absolute timestamp for format 0 and the delta for 1 and 2
MessageHeaderBytes(fmt, timestamp, messageLength, messageType, streamId) ==
  CASE fmt = 0 -> WriteUIntBE(timestamp, 3) \o WriteUIntBE(messageLength, 3)
                    \o <<messageType>>
                    \o <<streamId % 256, (streamId \div 256) % 256,
                         (streamId \div 65536) % 256, (streamId \div 16777216) % 256>>
    [] fmt = 1 -> WriteUIntBE(timestamp, 3) \o WriteUIntBE(messageLength, 3)
                    \o <<messageType>>
    [] fmt = 2 -> WriteUIntBE(timestamp, 3)
    [] fmt = 3 -> <<>>

\* The payload bytes of a message: a Set-Chunk-Size message carries its value,
\* any other message bytes that tell its csid and their position.
PayloadOf(csid, kind) ==
  IF kind.messageType = MSG_SET_CHUNK_SIZE /\ kind.messageLength >= 4
  THEN kind.v \o [j \in 1..(kind.messageLength - 4) |-> (csid % 4) * 32 + 4 + j]
  ELSE [j \in 1..kind.messageLength |-> (csid % 4) * 32 + j]

\* The header a chunk of format fmt stands for on a csid whose last header
\* was cache (section 4.2 of the protocol description)
HeaderMeaning(cache, fmt, kind, ts, sid) ==
  CASE fmt = 0 -> [timestamp |-> ts, messageLength |-> kind.messageLength,
                   messageType |-> kind.messageType, streamId |-> sid]
    [] fmt = 1 -> [timestamp |-> cache.timestamp + ts, messageLength |-> kind.messageLength,
                   messageType |-> kind.messageType, streamId |-> cache.streamId]
    [] fmt = 2 -> [cache EXCEPT !.timestamp = @ + ts]
    [] fmt = 3 -> cache

Upd(map, k, v) == [x \in (DOMAIN map) \cup {k} |-> IF x = k THEN v ELSE map[x]]

\* The client's state once it has written n more payload bytes of the message
\* m on csid: the message is finished when all its bytes are written.
AfterPayload(s, csid, m, n) ==
  LET m1 == [m EXCEPT !.sentBytes = @ + n]
  IN  IF m1.sentBytes >= Len(m1.payload)
      THEN [s EXCEPT !.cur = MapDelete(@, csid),
                     !.chunkSize =
                        IF m1.messageType = MSG_SET_CHUNK_SIZE /\ Len(m1.payload) >= 4
                        THEN ReadUInt32BEMasked31(m1.payload, 0)
                        ELSE @]
      ELSE [s EXCEPT !.cur = Upd(@, csid, m1)]

Finished(m, n) == m.sentBytes + n >= Len(m.payload)

ExpectedMessage(m, csid) ==
  [messageType |-> m.messageType, payload |-> m.payload, csid |-> csid,
   streamId |-> m.streamId, timestamp |-> m.timestamp, pure |-> m.pure]

\* No function is applied on its own
NoCall == [stage |-> "none"]

Init ==
  /\ call = NoCall
  /\ conn = NewConnection
  /\ wire = <<>>
  /\ sent = <<>>
  /\ snd = [phase |-> 0, version |-> 0, chunkSize |-> InitialChunkSize,
            cache |-> EmptyMap, cur |-> EmptyMap, chunks |-> <<>>]
  /\ expected = <<>>

\* The client writes C0 + C1
ClientHello(v) ==
  /\ snd.phase = 0
  /\ snd' = [snd EXCEPT !.phase = 1, !.version = v]
  /\ wire' = wire \o <<v>> \o ClientC1
  /\ UNCHANGED <<conn, sent, expected, call>>

\* The client writes C2
ClientAck ==
  /\ snd.phase = 1
  /\ snd' = [snd EXCEPT !.phase = 2]
  /\ wire' = wire \o ClientC2
  /\ UNCHANGED <<conn, sent, expected, call>>

\* The client writes the first chunk of a message on a csid that has none in
\* progress
ClientStart(csid, form, fmt, kind, ts, sid) ==
  /\ snd.phase = 2 /\ snd.version = RTMP_VERSION
  /\ Len(wire) < MaxInFlight
  /\ csid \notin DOMAIN snd.cur
  /\ fmt # 0 => csid \in DOMAIN snd.cache
  /\ fmt \in {2, 3} => /\ kind.messageType = snd.cache[csid].messageType
                       /\ kind.messageLength = snd.cache[csid].messageLength
  /\ LET h == HeaderMeaning(IF csid \in DOMAIN snd.cache THEN snd.cache[csid] ELSE <<>>,
                            fmt, kind, ts, sid)
         payload == PayloadOf(csid, kind)
         n == Min(Len(payload), snd.chunkSize)
         m == [payload |-> payload, sentBytes |-> 0, messageType |-> h.messageType,
               timestamp |-> h.timestamp, streamId |-> h.streamId, pure |-> fmt = 0]
         bytes == BasicHeaderBytes(fmt, csid, form)
                    \o MessageHeaderBytes(fmt, ts, kind.messageLength, kind.messageType, sid)
                    \o Subarray(payload, 0, n)
     IN  /\ Len(sent) + Len(bytes) <= MaxChunkBytes
         /\ wire' = wire \o bytes
         /\ sent' = sent \o bytes
         /\ snd' = AfterPayload(
                      [snd EXCEPT !.cache = Upd(@, csid, h),
                                  !.chunks = Append(@, [fmt |-> fmt, csid |-> csid, form |-> form,
                                                        timestamp |-> ts,
                                                        messageLength |-> kind.messageLength,
                                                        messageType |-> kind.messageType,
                                                        streamId |-> sid,
                                                        payload |-> Subarray(payload, 0, n),
                                                        end |-> Len(sent) + Len(bytes)])],
                      csid, m, n)
         /\ expected' = IF Finished(m, n) THEN Append(expected, ExpectedMessage(m, csid))
                        ELSE expected
  /\ UNCHANGED <<conn, call>>

\* The client writes a format-3 continuation chunk of the message in progress
\* on csid
ClientContinue(csid, form) ==
  /\ snd.phase = 2 /\ snd.version = RTMP_VERSION
  /\ Len(wire) < MaxInFlight
  /\ csid \in DOMAIN snd.cur
  /\ LET m == snd.cur[csid]
         n == Min(Len(m.payload) - m.sentBytes, snd.chunkSize)
         bytes == BasicHeaderBytes(3, csid, form)
                    \o Subarray(m.payload, m.sentBytes, m.sentBytes + n)
     IN  /\ Len(sent) + Len(bytes) <= MaxChunkBytes
         /\ wire' = wire \o bytes
         /\ sent' = sent \o bytes
         /\ snd' = AfterPayload(
                      [snd EXCEPT !.chunks = Append(@, [fmt |-> 3, csid |-> csid, form |-> form,
                                                        timestamp |-> 0,
                                                        messageLength |-> 0,
                                                        messageType |-> 0,
                                                        streamId |-> 0,
                                                        payload |-> Subarray(m.payload, m.sentBytes,
                                                                             m.sentBytes + n),
                                                        end |-> Len(sent) + Len(bytes)])],
                      csid, m, n)
         /\ expected' = IF Finished(m, n) THEN Append(expected, ExpectedMessage(m, csid))
                        ELSE expected
  /\ UNCHANGED <<conn, call>>

\* A data event of the socket delivers the next k bytes: handleData
Deliver(k, epoch, random) ==
  /\ k \in 1..Len(wire)
  /\ conn' = handleData(conn, Subarray(wire, 0, k), epoch, random)
  /\ wire' = SubarrayFrom(wire, k)
  /\ UNCHANGED <<sent, snd, expected, call>>

Next ==
  \/ \E v \in ClientVersions : ClientHello(v)
  \/ ClientAck
  \/ \E csid \in ClientCsids, fmt \in 0..3, kind \in MessageKinds,
        ts \in ClientTimestamps \cup ClientDeltas, sid \in ClientStreamIds :
       \E form \in Forms(csid) :
         /\ ts \in (IF fmt = 0 THEN ClientTimestamps ELSE ClientDeltas)
         /\ ClientStart(csid, form, fmt, kind, ts, sid)
  \/ \E csid \in ClientCsids : ClientContinue(csid, ShortestForm(csid))
  \/ \E k \in 1..Len(wire) :
       \E epoch \in EpochValues, random \in RandomBlocks : Deliver(k, epoch, random)

Spec == Init /\ [][Next]_vars

\* ---------------------------------------------- the command client ----
\* A second client: the handshake is done and the client writes whole command
\* messages, each as a format-0 chunk and format-3 continuation chunks on one
\* csid, while the pipeline's pending initializations settle in any order.
\* A data event delivers all the bytes written so far: one message, or two
\* when the client wrote the second before the first was delivered.
\* A command is its name, transaction id and arguments, encoded as the
\* protocol has it (every kind of value has its marker), and a kind that says
\* how its encoding is broken, if it is.
ClientString(str) == <<2>> \o WriteUIntBE(Len(str), 2) \o str

ClientScalar(value) ==
  CASE value.t = "string" -> ClientString(value.v)
    [] value.t = "number" -> <<0>> \o value.v
    [] value.t = "boolean" -> <<1>> \o value.v
    [] value.t = "null" -> <<5>>
    [] value.t = "undefined" -> <<6>>

RECURSIVE ClientProperties(_)
ClientProperties(props) ==
  IF props = <<>> THEN <<>>
  ELSE WriteUIntBE(Len(Head(props).key), 2) \o Head(props).key
         \o ClientScalar(Head(props).value) \o ClientProperties(Tail(props))

ClientValue(value) ==
  IF value.t = "object" THEN <<3>> \o ClientProperties(value.v) \o <<0, 0, 9>>
  ELSE ClientScalar(value)

RECURSIVE ClientValues(_)
ClientValues(args) ==
  IF args = <<>> THEN <<>> ELSE ClientValue(Head(args)) \o ClientValues(Tail(args))

Front(s) == SubSeq(s, 1, Len(s) - 1)
Last(s) == s[Len(s)]

\* The AMF0 payload of a command.  kind "ok" is the valid encoding; the other
\* kinds break one thing: the name's marker, the transaction id's marker, the
\* name's length field (past the payload), the length field of the last
\* argument, a string (one more than the bytes that follow).  The kinds
\* "unknownMarker" and "unknownProperty" are valid encodings that hold a value
\* of the AMF0 type undefined (marker 6), as an argument or as a property.
CommandBody(cmd) ==
  CASE cmd.kind \in {"ok", "unknownMarker", "unknownProperty"} ->
         ClientString(cmd.name) \o <<0>> \o NumberOfNat(cmd.tid) \o ClientValues(cmd.args)
    [] cmd.kind = "nameMarker" ->
         <<5>> \o Tail(ClientString(cmd.name)) \o <<0>> \o NumberOfNat(cmd.tid)
           \o ClientValues(cmd.args)
    [] cmd.kind = "tidMarker" ->
         ClientString(cmd.name) \o <<5>> \o NumberOfNat(cmd.tid) \o ClientValues(cmd.args)
    [] cmd.kind = "nameLength" ->
         <<2, 0, 255>> \o cmd.name \o <<0>> \o NumberOfNat(cmd.tid) \o ClientValues(cmd.args)
    [] cmd.kind = "argLength" ->
         ClientString(cmd.name) \o <<0>> \o NumberOfNat(cmd.tid)
           \o ClientValues(Front(cmd.args))
           \o <<2>> \o WriteUIntBE(Len(Last(cmd.args).v) + 1, 2) \o Last(cmd.args).v

\* An AMF3 command message (type 17) carries a zero byte before the AMF0 body
CommandPayload(cmd) == IF cmd.amf3 THEN <<0>> \o CommandBody(cmd) ELSE CommandBody(cmd)

CommandType(cmd) == IF cmd.amf3 THEN MSG_AMF3_CMD ELSE MSG_AMF0_CMD

Command(name, tid, args, kind, amf3) ==
  [name |-> name, tid |-> tid, args |-> args, kind |-> kind, amf3 |-> amf3]

\* A value of the AMF0 type undefined
UndefinedValue == [t |-> "undefined", v |-> <<>>]

STR_k == <<107>>  \* "k"
STR_app == <<97, 112, 112>>  \* "app"

CommandMenu ==
  { Command(STR_connect, 1, <<ObjectValue(<<[key |-> STR_app, value |-> StringValue(STR_k)]>>)>>,
            "ok", FALSE),
    Command(STR_createStream, 2, <<NullValue>>, "ok", FALSE),
    Command(STR_publish, 3, <<StringValue(STR_mystream)>>, "ok", FALSE),
    Command(STR_publish, 3, <<>>, "ok", FALSE),
    Command(STR_publish, 3, <<NullValue, StringValue(STR_k)>>, "ok", FALSE),
    Command(STR_publish, 3, <<StringValue(<<>>)>>, "ok", FALSE),
    Command(STR_releaseStream, 4, <<NullValue, StringValue(STR_k)>>, "ok", FALSE),
    Command(STR_FCPublish, 5, <<NullValue, StringValue(STR_k)>>, "ok", TRUE),
    Command(STR_play, 6, <<NullValue, StringValue(STR_k)>>, "ok", FALSE),
    Command(STR_releaseStream, 4, <<NullValue>>, "nameMarker", FALSE),
    Command(STR_releaseStream, 4, <<NullValue>>, "tidMarker", FALSE),
    Command(STR_releaseStream, 4, <<NullValue>>, "nameLength", FALSE),
    Command(STR_releaseStream, 4, <<NullValue, StringValue(STR_k)>>, "argLength", FALSE),
    Command(STR_releaseStream, 4, <<UndefinedValue, StringValue(STR_k)>>,
            "unknownMarker", FALSE),
    Command(STR_releaseStream, 4,
            <<ObjectValue(<<[key |-> STR_app, value |-> UndefinedValue]>>)>>,
            "unknownProperty", FALSE) }

\* The csids a command is written on: 3, and for FCPublish also 64, which
\* the client writes in the 3-byte form of the basic header
CommandCsids(cmd) == IF cmd.name = STR_FCPublish THEN {3, 64} ELSE {3}

CommandForm(csid) == IF csid < 64 THEN 1 ELSE 3

RECURSIVE ContinuationChunks(_, _, _)
ContinuationChunks(csid, rest, size) ==
  IF rest = <<>> THEN <<>>
  ELSE BasicHeaderBytes(3, csid, CommandForm(csid)) \o Subarray(rest, 0, size)
         \o ContinuationChunks(csid, SubarrayFrom(rest, size), size)

\* The chunks of one message on csid, for the chunk size the client writes with
MessageBytes(csid, messageType, payload, size) ==
  BasicHeaderBytes(0, csid, CommandForm(csid))
    \o MessageHeaderBytes(0, 0, Len(payload), messageType, 0)
    \o Subarray(payload, 0, size)
    \o ContinuationChunks(csid, SubarrayFrom(payload, size), size)

\* The connection at the end of a handshake delivered in two data events
ConnectedConnection ==
  handleData(
    handleData(NewConnection, <<RTMP_VERSION>> \o ClientC1,
               CHOOSE e \in EpochValues : TRUE, CHOOSE r \in RandomBlocks : TRUE),
    ClientC2, CHOOSE e \in EpochValues : TRUE, CHOOSE r \in RandomBlocks : TRUE)

InitCmd ==
  /\ call = NoCall
  /\ conn = ConnectedConnection
  /\ wire = <<>>
  /\ sent = <<>>
  /\ snd = [phase |-> 2, version |-> RTMP_VERSION, chunkSize |-> InitialChunkSize,
            cache |-> EmptyMap, cur |-> EmptyMap, chunks |-> <<>>]
  /\ expected = <<>>

PublishesSent == Cardinality({i \in 1..Len(expected) : expected[i].cmd.name = STR_publish})

\* The client writes the command cmd as one message on csid
ClientCommand(cmd, csid) ==
  /\ Len(expected) < MaxCommands
  /\ cmd.name = STR_publish => PublishesSent < MaxPublishes
  /\ Len(wire) < MaxCommandBytesInFlight
  /\ wire' = wire \o MessageBytes(csid, CommandType(cmd), CommandPayload(cmd), snd.chunkSize)
  /\ sent' = sent \o MessageBytes(csid, CommandType(cmd), CommandPayload(cmd), snd.chunkSize)
  /\ expected' = Append(expected,
                   [messageType |-> CommandType(cmd), payload |-> CommandPayload(cmd),
                    csid |-> csid, streamId |-> 0, timestamp |-> 0, pure |-> TRUE,
                    cmd |-> cmd])
  /\ UNCHANGED <<conn, snd, call>>

\* The continuations of the awaits are jobs of the microtask queue, which the
\* runtime runs until none is left before it takes the next event of the
\* socket or of a timer.  call.inflight holds the handleData calls that are
\* suspended at an await, each with what it waits for: "microtask" for a
\* promise that settles without an event, "initialize" for one that needs
\* the pipeline.  Outside the specification of the event loop there are none.
MicrotasksDrained ==
  call.stage = "async" =>
    \A j \in 1..Len(call.inflight) : call.inflight[j].wait # "microtask"

\* What a pending initialize call does to the stream processor when it settles
SettleOutcome(sp, kind, i) ==
  CASE kind = "resolves" -> initializeResolves(sp, i)
    [] kind = "noDecoder" -> initializeRejectsNoDecoder(sp, i)
    [] kind = "inTry" -> initializeRejectsInTry(sp, i)

\* The suspended calls that waited for the pipeline can go on; call.atomic,
\* the connection as it is when every delivery is handled in one piece,
\* shares the stream processor
Settled(cl, kind, i) ==
  IF cl.stage # "async" THEN cl
  ELSE [cl EXCEPT !.inflight = [j \in 1..Len(@) |-> [@[j] EXCEPT !.wait = "microtask"]],
                  !.atomic.streamProcessor = SettleOutcome(@, kind, i)]

\* A pending initialize call settles: it resolves, or it rejects and the
\* catch of handlePublish logs the failure
InitializeResolves(i) ==
  /\ i \in 1..Len(conn.streamProcessor.pending)
  /\ MicrotasksDrained
  /\ conn' = [conn EXCEPT !.streamProcessor = initializeResolves(@, i)]
  /\ call' = Settled(call, "resolves", i)
  /\ UNCHANGED <<wire, sent, snd, expected>>

\* A rejected initialization that also ends the socket
InitializeRejectsNoDecoder_EndsSocket(i) ==
  /\ i \in 1..Len(conn.streamProcessor.pending)
  /\ MicrotasksDrained
  /\ conn' = [conn EXCEPT !.streamProcessor = initializeRejectsNoDecoder(@, i),
                          !.ended = TRUE]
  /\ call' = Settled(call, "noDecoder", i)
  /\ UNCHANGED <<wire, sent, snd, expected>>

InitializeRejectsNoDecoder(i) ==
  /\ i \in 1..Len(conn.streamProcessor.pending)
  /\ MicrotasksDrained
  /\ conn' = [conn EXCEPT !.streamProcessor = initializeRejectsNoDecoder(@, i)]
  /\ call' = Settled(call, "noDecoder", i)
  /\ UNCHANGED <<wire, sent, snd, expected>>

InitializeRejectsInTry(i) ==
  /\ i \in 1..Len(conn.streamProcessor.pending)
  /\ MicrotasksDrained
  /\ conn' = [conn EXCEPT !.streamProcessor = initializeRejectsInTry(@, i)]
  /\ call' = Settled(call, "inTry", i)
  /\ UNCHANGED <<wire, sent, snd, expected>>

NextCmd ==
  \/ \E cmd \in CommandMenu : \E csid \in CommandCsids(cmd) : ClientCommand(cmd, csid)
  \/ \E k \in {Len(wire)} \cap (1..Len(wire)) :
       \E epoch \in EpochValues, random \in RandomBlocks : Deliver(k, epoch, random)
  \/ \E i \in 1..Len(conn.streamProcessor.pending) : InitializeResolves(i)
  \/ \E i \in 1..Len(conn.streamProcessor.pending) : InitializeRejectsNoDecoder(i)
  \/ \E i \in 1..Len(conn.streamProcessor.pending) : InitializeRejectsInTry(i)

SpecCmd == InitCmd /\ [][NextCmd]_vars

\* ------------------------------------------- the long-lived stream ----
\* A third client: the connection has received a long stream of video
\* messages on csid 4 and is AckMargin bytes short of the next window
\* acknowledgement, either the first one or the one that falls due as the
\* count of received bytes passes 2^32.  The client goes on with audio,
\* video and data messages on another csid, delivered in any split.
AckCsids == {3}

AckKinds ==
  [messageType : {MSG_VIDEO}, messageLength : {2, InitialChunkSize + 2}, v : {<<>>}]
  \cup [messageType : {MSG_AUDIO, MSG_AMF0_DATA}, messageLength : {1}, v : {<<>>}]
  \cup [messageType : {MSG_AMF0_DATA}, messageLength : {InitialChunkSize + 1}, v : {<<>>}]
  \cup [messageType : {MSG_SET_CHUNK_SIZE}, messageLength : {4}, v : {<<0, 0, 0, 0>>}]

\* The counters at the start: acked says that an acknowledgement was sent at
\* lastAckSent
AckStarts ==
  { [countedFrom |-> 0, bytesReceived |-> InitialWindowAckSize - AckMargin,
     lastAckSent |-> 0, acked |-> FALSE, rangeChecked |-> TRUE] }
  \cup
  { [countedFrom |-> 65535, bytesReceived |-> 65536 - AckMargin,
     lastAckSent |-> 65536 - InitialWindowAckSize, acked |-> TRUE,
     rangeChecked |-> checked] : checked \in BOOLEAN }

\* The header caches a stream of video messages leaves on csid
AfterVideoOn(c, csid) ==
  [c EXCEPT !.lastTimestamp = MapSet(@, csid, 0),
            !.lastMessageLength = MapSet(@, csid, InitialChunkSize),
            !.lastMessageType = MapSet(@, csid, MSG_VIDEO),
            !.lastMessageStreamId = MapSet(@, csid, 1)]

\* The connection as it was when it sent its last acknowledgement
LastAcked(c, start) ==
  IF start.acked
  THEN AckCheck([c EXCEPT !.bytesReceived = start.lastAckSent,
                          !.lastAckSent = start.lastAckSent - c.windowAckSize])
  ELSE c

AckConnection(start) ==
  [LastAcked(AfterVideoOn([ConnectedConnection EXCEPT
                             !.countedFrom = start.countedFrom,
                             !.rangeChecked = start.rangeChecked], 4),
             start)
     EXCEPT !.bytesReceived = start.bytesReceived]

InitAck ==
  /\ call = NoCall
  /\ conn \in {AckConnection(start) : start \in AckStarts}
  /\ wire = <<>>
  /\ sent = <<>>
  /\ snd = [phase |-> 2, version |-> RTMP_VERSION, chunkSize |-> InitialChunkSize,
            cache |-> EmptyMap, cur |-> EmptyMap, chunks |-> <<>>]
  /\ expected = <<>>

NextAck ==
  \/ \E csid \in AckCsids, fmt \in {0, 3}, kind \in AckKinds :
       /\ Len(sent) < MaxAckBytes
       /\ ClientStart(csid, 1, fmt, kind, 0, 1)
  \/ \E csid \in AckCsids :
       /\ Len(sent) < MaxAckBytes
       /\ ClientContinue(csid, 1)
  \/ \E k \in 1..Len(wire) :
       \E epoch \in EpochValues, random \in RandomBlocks : Deliver(k, epoch, random)

SpecAck == InitAck /\ [][NextAck]_vars

\* ------------------------------------------------ the AMF0 codec ----
\* encodeAMF0 and parseAMF0 applied on their own: a command is encoded and
\* the bytes are parsed.
AmfNames == {STR_result, STR_onStatus}

AmfTransactionIds == {NumberOfNat(0), NumberOfNat(1)}

AmfValues ==
  << StringValue(STR_k), StringValue(<<>>), NumberValue(NumberOfNat(1)),
     BooleanValue(TRUE), BooleanValue(FALSE), NullValue,
     ObjectValue(<<>>),
     ObjectValue(<<[key |-> STR_app, value |-> StringValue(STR_k)]>>),
     ObjectValue(<<[key |-> STR_k, value |-> NumberValue(NumberOfNat(1))],
                   [key |-> STR_app, value |-> BooleanValue(TRUE)]>>) >>

\* The argument lists, each argument by its place in AmfValues
AmfArguments == UNION {[1..n -> 1..Len(AmfValues)] : n \in 0..MaxArguments}

InitAmf ==
  /\ \E command \in AmfNames, transactionId \in AmfTransactionIds,
        places \in AmfArguments :
       call = [stage |-> "input", command |-> command,
               transactionId |-> transactionId,
               args |-> [i \in DOMAIN places |-> AmfValues[places[i]]],
               bytes |-> <<>>, result |-> [ok |-> FALSE]]
  /\ conn = NewConnection
  /\ wire = <<>>
  /\ sent = <<>>
  /\ snd = [phase |-> 0, version |-> 0, chunkSize |-> InitialChunkSize,
            cache |-> EmptyMap, cur |-> EmptyMap, chunks |-> <<>>]
  /\ expected = <<>>

Encode ==
  /\ call.stage = "input"
  /\ call' = [call EXCEPT !.stage = "encoded",
                          !.bytes = encodeAMF0(call.command, call.transactionId, call.args)]
  /\ UNCHANGED <<conn, wire, sent, snd, expected>>

Parse ==
  /\ call.stage = "encoded"
  /\ call' = [call EXCEPT !.stage = "parsed", !.result = parseAMF0(call.bytes)]
  /\ UNCHANGED <<conn, wire, sent, snd, expected>>

NextAmf == Encode \/ Parse

SpecAmf == InitAmf /\ [][NextAmf]_vars

\* -------------------------------------------- the control messages ----
\* The send functions of the protocol control messages applied on their own,
\* and what handleCompleteMessage reads from the message each one writes.
\* A value of 2^31 or more is held as the value minus 2^32.
UInt32(high, low) == (IF high >= 32768 THEN high - 65536 ELSE high) * 65536 + low

ControlValues ==
  { UInt32(0, 0), UInt32(0, 1), UInt32(0, 128), UInt32(0, 255), UInt32(0, 4096),
    UInt32(0, 65535), UInt32(1, 0), InitialWindowAckSize, UInt32(32767, 65535),
    UInt32(32768, 0), UInt32(65535, 65535) }

SendFunctions == {"sendSetChunkSize", "sendWindowAckSize", "sendSetPeerBandwidth", "sendAck"}

\* A connection in the middle of a stream: header caches on csid 4 and 3 and
\* the first chunk of a video message held as a partial message of csid 3
ReceivingConnection ==
  handleData(AfterVideoOn(ConnectedConnection, 4),
             BasicHeaderBytes(0, 3, 1)
               \o MessageHeaderBytes(0, 0, InitialChunkSize + 2, MSG_VIDEO, 1)
               \o [j \in 1..InitialChunkSize |-> j],
             CHOOSE e \in EpochValues : TRUE, CHOOSE r \in RandomBlocks : TRUE)

\* The protocol control messages a peer sends, other than Set Chunk Size
InboundControl ==
  { [messageType |-> MSG_WINDOW_ACK_SIZE, payload |-> WriteUIntBE(5000000, 4)],
    [messageType |-> MSG_WINDOW_ACK_SIZE, payload |-> <<0, 0>>],
    [messageType |-> MSG_SET_PEER_BW, payload |-> WriteUIntBE(5000000, 4) \o <<1>>],
    [messageType |-> MSG_ACK, payload |-> WriteUIntBE(4096, 4)],
    [messageType |-> MSG_ABORT, payload |-> WriteUIntBE(3, 4)],
    [messageType |-> MSG_USER_CONTROL, payload |-> <<0, 3>> \o WriteUIntBE(1, 4) \o WriteUIntBE(100, 4)],
    [messageType |-> MSG_USER_CONTROL, payload |-> <<0, 6>> \o WriteUIntBE(7, 4)] }

InitControl ==
  /\ call \in [stage : {"input"}, function : SendFunctions, value : ControlValues,
                result : {[decoded |-> FALSE, size |-> 0]}]
  /\ conn = ReceivingConnection
  /\ wire = <<>>
  /\ sent = <<>>
  /\ snd = [phase |-> 2, version |-> RTMP_VERSION, chunkSize |-> InitialChunkSize,
            cache |-> EmptyMap, cur |-> EmptyMap, chunks |-> <<>>]
  /\ expected = <<>>

Send ==
  /\ call.stage = "input"
  /\ call' = [call EXCEPT !.stage = "sent"]
  /\ conn' = CASE call.function = "sendSetChunkSize" -> sendSetChunkSize(conn, call.value)
               [] call.function = "sendWindowAckSize" -> sendWindowAckSize(conn, call.value)
               [] call.function = "sendSetPeerBandwidth" ->
                    sendSetPeerBandwidth(conn, call.value, 2)
               [] call.function = "sendAck" -> sendAck(conn, call.value)
  /\ UNCHANGED <<wire, sent, snd, expected>>

\* The message written last comes back as a completed message
Receive ==
  /\ call.stage = "sent"
  /\ call' = [call EXCEPT !.stage = "received",
                          !.result = ControlValue(Byte(Last(conn.written), 7),
                                                  SubarrayFrom(Last(conn.written), 12))]
  /\ conn' = handleCompleteMessage(conn, Byte(Last(conn.written), 7),
                                   SubarrayFrom(Last(conn.written), 12), 2, 0)
  /\ UNCHANGED <<wire, sent, snd, expected>>

\* A protocol control message of the peer arrives as a completed message
Inbound(m) ==
  /\ call.stage = "received"
  /\ conn' = handleCompleteMessage(conn, m.messageType, m.payload, 2, 0)
  /\ call' = [stage |-> "inbound", function |-> call.function, value |-> call.value,
              result |-> call.result, inbound |-> m,
              pre |-> CommandFrame(conn), writtenBefore |-> Len(conn.written)]
  /\ UNCHANGED <<wire, sent, snd, expected>>

NextControl == Send \/ Receive \/ \E m \in InboundControl : Inbound(m)

SpecControl == InitControl /\ [][NextControl]_vars

\* --------------------------------------------------- the event loop ----
\* handleData and the loop are async functions: the specifications above take
\* a delivery in one step; this one takes it await by await.  A data event
\* runs handleData up to its first await; each continuation is a microtask.
AsyncMenu ==
  { Command(STR_connect, 1, <<ObjectValue(<<[key |-> STR_app, value |-> StringValue(STR_k)]>>)>>,
            "ok", FALSE),
    Command(STR_createStream, 2, <<NullValue>>, "ok", FALSE),
    Command(STR_publish, 3, <<StringValue(STR_mystream)>>, "ok", FALSE),
    Command(STR_play, 6, <<NullValue, StringValue(STR_k)>>, "ok", FALSE) }

RECURSIVE RunToAwait(_)

\* r is the iteration just run on c: the loop was left, or the iteration
\* handed a message to handleCompleteMessage and awaits it (lines 543, 560),
\* or the next iteration runs at once
AfterIteration(c, r) ==
  IF r.brk THEN [c |-> r.c, left |-> TRUE]
  ELSE IF Len(r.c.dispatched) > Len(c.dispatched) THEN [c |-> r.c, left |-> FALSE]
  ELSE RunToAwait(r.c)

\* The loop from c to its next await: left says that the loop was left, and
\* what remains is the await of lines 328 and 433
RunToAwait(c) ==
  IF Len(c.buffer) = 0 THEN [c |-> c, left |-> TRUE]
  ELSE AfterIteration(c, LoopIteration(c))

\* The call id is suspended after r
Frame(id, r) ==
  [id |-> id, left |-> r.left,
   wait |-> IF r.c.awaitsInitialize THEN "initialize" ELSE "microtask"]

Suspended(r) == [r.c EXCEPT !.awaitsInitialize = FALSE]

InitAsync ==
  /\ call = [stage |-> "async", inflight |-> <<>>, log |-> <<>>, calls |-> 0,
             atomic |-> ConnectedConnection]
  /\ conn = ConnectedConnection
  /\ wire = <<>>
  /\ sent = <<>>
  /\ snd = [phase |-> 2, version |-> RTMP_VERSION, chunkSize |-> InitialChunkSize,
            cache |-> EmptyMap, cur |-> EmptyMap, chunks |-> <<>>]
  /\ expected = <<>>

\* Lines 985-998 and 319-330: the data callback calls handleData, which runs
\* to its first await; the callback does not await it.  call.log records
\* where each call begins and ends.
DataEvent(k, epoch, random) ==
  /\ call.stage = "async"
  /\ k \in 1..Len(wire)
  /\ MicrotasksDrained
  /\ conn' = Suspended(RunToAwait([conn EXCEPT !.buffer = @ \o Subarray(wire, 0, k),
                                               !.bytesReceived = @ + k,
                                               !.rejected = FALSE]))
  /\ call' = [call EXCEPT
       !.inflight = Append(@, Frame(call.calls + 1,
                      RunToAwait([conn EXCEPT !.buffer = @ \o Subarray(wire, 0, k),
                                              !.bytesReceived = @ + k,
                                              !.rejected = FALSE]))),
       !.log = Append(@, [id |-> call.calls + 1, event |-> "begin"]),
       !.calls = @ + 1,
       !.atomic = handleData(@, Subarray(wire, 0, k), epoch, random)]
  /\ wire' = SubarrayFrom(wire, k)
  /\ UNCHANGED <<sent, snd, expected>>

\* The first suspended call whose promise has settled
ReadyFrame ==
  CHOOSE j \in 1..Len(call.inflight) :
    /\ call.inflight[j].wait = "microtask"
    /\ \A i \in 1..(j - 1) : call.inflight[i].wait # "microtask"

\* A microtask: the call goes on after its await, to the next await or to
\* its end
Resume ==
  /\ call.stage = "async"
  /\ ~MicrotasksDrained
  /\ IF call.inflight[ReadyFrame].left
     THEN /\ conn' = conn
          /\ call' = [call EXCEPT
               !.inflight = RemoveAt(@, ReadyFrame),
               !.log = Append(@, [id |-> call.inflight[ReadyFrame].id, event |-> "end"])]
     ELSE /\ conn' = Suspended(RunToAwait(conn))
          /\ call' = [call EXCEPT
               !.inflight[ReadyFrame] = Frame(@.id, RunToAwait(conn))]
  /\ UNCHANGED <<wire, sent, snd, expected>>

NextAsync ==
  \/ \E cmd \in AsyncMenu : ClientCommand(cmd, 3)
  \/ \E k \in {Len(wire)} \cap (1..Len(wire)) :
       \E epoch \in EpochValues, random \in RandomBlocks : DataEvent(k, epoch, random)
  \/ Resume
  \/ \E i \in 1..Len(conn.streamProcessor.pending) : InitializeResolves(i)
  \/ \E i \in 1..Len(conn.streamProcessor.pending) : InitializeRejectsNoDecoder(i)
  \/ \E i \in 1..Len(conn.streamProcessor.pending) : InitializeRejectsInTry(i)

SpecAsync == InitAsync /\ [][NextAsync]_vars

\* ======================================================== properties ====
Steps == conn.steps
Dispatched == conn.dispatched
Chunks == snd.chunks

HandshakeLength == 1 + 2 * RTMP_HANDSHAKE_SIZE

\* The number of chunk bytes the data events have delivered so far
DeliveredChunkBytes ==
  IF conn.bytesReceived > HandshakeLength THEN conn.bytesReceived - HandshakeLength ELSE 0

\* The client's i-th chunk has been delivered whole
ChunkDelivered(i) == Chunks[i].end <= DeliveredChunkBytes

AllDelivered == wire = <<>>

NoCaches(c) ==
  /\ c.lastTimestamp = EmptyMap /\ c.lastMessageLength = EmptyMap
  /\ c.lastMessageType = EmptyMap /\ c.lastMessageStreamId = EmptyMap
  /\ c.incompleteMessages = EmptyMap

\* ---- C1 ----------------------------------------------------------------
BeforeHandshakeDone ==
  /\ \A i \in 1..Len(Steps) : Steps[i].handshakeState = HANDSHAKE_DONE
  /\ conn.handshakeState # HANDSHAKE_DONE =>
       /\ Steps = <<>> /\ Dispatched = <<>> /\ conn.commands = <<>>
       /\ NoCaches(conn)
       /\ conn.peerChunkSize = InitialChunkSize
       /\ Len(conn.written) <= 1
       /\ conn.handshakeState = UNINITIALIZED => conn.written = <<>>
       /\ conn.written # <<>> =>
            /\ Len(conn.written[1]) = HandshakeLength
            /\ conn.written[1][1] = RTMP_VERSION

PhaseForward ==
  \/ conn'.handshakeState = conn.handshakeState
  \/ conn.handshakeState = UNINITIALIZED /\ conn'.handshakeState = ACK_SENT
  \/ conn.handshakeState = ACK_SENT /\ conn'.handshakeState = HANDSHAKE_DONE

\* C1: while the handshake phase is not HANDSHAKE_DONE no chunk header has been
\* parsed (no chunk consumed, no header cached, no partial message), no message
\* has been dispatched and the socket has been written at most once, with the
\* S0+S1+S2 block; every chunk is consumed in phase HANDSHAKE_DONE; and the
\* phase only steps UNINITIALIZED -> ACK_SENT -> HANDSHAKE_DONE, never back.
C1_HandshakeGate == [](BeforeHandshakeDone) /\ [][PhaseForward]_vars

\* The handshake response is written, C2 is buffered whole and still nothing
\* has been parsed
C1_Witness ==
  /\ conn.handshakeState = ACK_SENT
  /\ Len(conn.written) = 1
  /\ Len(conn.buffer) >= RTMP_HANDSHAKE_SIZE

\* ---- C2 ----------------------------------------------------------------
\* The i-th dispatched message is the i-th message the client sent
SameMessage(d, e) ==
  /\ d.payload = e.payload /\ d.messageType = e.messageType
  /\ d.timestamp = e.timestamp /\ d.streamId = e.streamId /\ d.csid = e.csid

\* C2: once every byte has been delivered, each message the client sent has
\* been completed exactly once, and a message sent as a format-0 chunk plus
\* format-3 continuations arrives with its payload bytes in order and the
\* type, timestamp and stream id of its format-0 header.
C2_ChunkingInvariant ==
  AllDelivered =>
    /\ Len(Dispatched) = Len(expected)
    /\ \A i \in 1..Len(expected) :
         expected[i].pure => SameMessage(Dispatched[i], expected[i])

\* ---- C3 ----------------------------------------------------------------
\* A connection right after its handshake
HandshakeDoneConnection ==
  LET e == CHOOSE x \in EpochValues : TRUE
      r == CHOOSE x \in RandomBlocks : TRUE
  IN  handleData(handleData(NewConnection, <<RTMP_VERSION>> \o ClientC1, e, r), ClientC2, e, r)

\* The same connection after a single delivery of bytes
OneDelivery(bytes) ==
  handleData(HandshakeDoneConnection, bytes,
             CHOOSE x \in EpochValues : TRUE, CHOOSE x \in RandomBlocks : TRUE)

\* C3: whatever the split into deliveries, the messages dispatched, the header
\* caches and the partial messages are those a single delivery of the same
\* chunk bytes produces.
C3_SplitIndependence ==
  (conn.handshakeState = HANDSHAKE_DONE /\ DeliveredChunkBytes > 0) =>
    LET one == OneDelivery(Subarray(sent, 0, DeliveredChunkBytes))
    IN  /\ Dispatched = one.dispatched
        /\ Caches(conn) = Caches(one)

\* ---- C4 ----------------------------------------------------------------
PartialWithinTotal(m) ==
  /\ m.bytesReceived <= m.totalLength
  /\ Len(m.buffer) = m.bytesReceived

PartialsWithinTotal(partials) ==
  \A csid \in DOMAIN partials : PartialWithinTotal(partials[csid])

\* C4: every partial message, after every chunk, has bytesReceived <=
\* totalLength and holds exactly bytesReceived bytes; no chunk carries more
\* payload than the message on its csid still lacks, and no dispatched message
\* is longer than its declared length.
C4_PartialBounded ==
  /\ PartialsWithinTotal(conn.incompleteMessages)
  /\ \A i \in 1..Len(Steps) :
       /\ PartialsWithinTotal(Steps[i].post.incompleteMessages)
       /\ Len(Steps[i].chunkData) <= Steps[i].remainingBytes
       /\ Steps[i].csid \in DOMAIN Steps[i].pre.incompleteMessages =>
            LET m == Steps[i].pre.incompleteMessages[Steps[i].csid]
            IN  /\ m.bytesReceived + Len(Steps[i].chunkData) <= m.totalLength
                /\ Steps[i].dispatchedAfter > Steps[i].dispatchedBefore =>
                     Len(Dispatched[Steps[i].dispatchedAfter].payload) = m.totalLength

\* A continuation chunk has been appended to a partial message that is still
\* incomplete after it
C4_Witness ==
  \E i \in 1..Len(Steps) :
    /\ Steps[i].csid \in DOMAIN Steps[i].pre.incompleteMessages
    /\ Steps[i].csid \in DOMAIN Steps[i].post.incompleteMessages
    /\ Steps[i].post.incompleteMessages[Steps[i].csid].bytesReceived > Steps[i].peerChunkSize

\* ---- C5 ----------------------------------------------------------------
\* What the connection holds for csid in the snapshot k
CsidState(k, csid) ==
  [hasTimestamp |-> csid \in DOMAIN k.lastTimestamp,
   hasLength |-> csid \in DOMAIN k.lastMessageLength,
   hasType |-> csid \in DOMAIN k.lastMessageType,
   hasStreamId |-> csid \in DOMAIN k.lastMessageStreamId,
   hasPartial |-> csid \in DOMAIN k.incompleteMessages,
   header |-> [timestamp |-> GetOr0(k.lastTimestamp, csid),
               messageLength |-> GetOr0(k.lastMessageLength, csid),
               messageType |-> GetOr0(k.lastMessageType, csid),
               streamId |-> GetOr0(k.lastMessageStreamId, csid)],
   partial |-> GetOr0(k.incompleteMessages, csid)]

KnownCsids(k) ==
  DOMAIN k.lastTimestamp \cup DOMAIN k.lastMessageLength \cup DOMAIN k.lastMessageType
    \cup DOMAIN k.lastMessageStreamId \cup DOMAIN k.incompleteMessages

\* C5: a chunk on csid A leaves the header cache and the partial message of
\* every other csid as they were, and every message completed on a csid
\* carries exactly the payload bytes the client sent on that csid, in order.
C5_CsidIndependence ==
  /\ \A i \in 1..Len(Steps) :
       \A csid \in (KnownCsids(Steps[i].pre) \cup KnownCsids(Steps[i].post)) \ {Steps[i].csid} :
         CsidState(Steps[i].pre, csid) = CsidState(Steps[i].post, csid)
  /\ Len(Dispatched) <= Len(expected)
  /\ \A i \in 1..Len(Dispatched) :
       /\ Dispatched[i].csid = expected[i].csid
       /\ Dispatched[i].payload = expected[i].payload

\* Two multi-chunk messages were in progress at once on different csids and
\* both have completed
C5_Witness ==
  /\ \E i \in 1..Len(Steps) : Cardinality(DOMAIN Steps[i].post.incompleteMessages) = 2
  /\ \E a, b \in 1..Len(Dispatched) :
       /\ Dispatched[a].csid # Dispatched[b].csid
       /\ Len(Dispatched[a].payload) > InitialChunkSize
       /\ Len(Dispatched[b].payload) > InitialChunkSize

\* ---- C6 ----------------------------------------------------------------
\* C6: every chunk the client has sent and the data events have delivered
\* whole has been parsed and consumed, under the csid and with the basic
\* header size of its form (1, 2 or 3 bytes), whatever its format.
C6_BasicHeader ==
  \A i \in 1..Len(Chunks) :
    ChunkDelivered(i) =>
      /\ i <= Len(Steps)
      /\ Steps[i].fmt = Chunks[i].fmt
      /\ Steps[i].csid = Chunks[i].csid
      /\ Steps[i].offset = Chunks[i].form

\* ---- C7 ----------------------------------------------------------------
\* Step i is a format-3 chunk that starts a message on a csid whose header was
\* last written by the format-0 chunk of step j
InheritsFromFormat0(i, j) ==
  /\ j < i
  /\ Steps[i].fmt = 3 /\ Steps[j].fmt = 0 /\ Steps[j].csid = Steps[i].csid
  /\ Steps[i].csid \notin DOMAIN Steps[i].pre.incompleteMessages
  /\ \A k \in (j + 1)..(i - 1) : Steps[k].csid = Steps[i].csid => Steps[k].fmt = 3

\* The header values of the message that step i completed or started
MessageOfStep(i) ==
  IF Steps[i].dispatchedAfter > Steps[i].dispatchedBefore
  THEN LET d == Dispatched[Steps[i].dispatchedAfter]
       IN  [timestamp |-> d.timestamp, messageLength |-> Len(d.payload),
            messageType |-> d.messageType, streamId |-> d.streamId]
  ELSE LET m == Steps[i].post.incompleteMessages[Steps[i].csid]
       IN  [timestamp |-> m.timestamp, messageLength |-> m.totalLength,
            messageType |-> m.messageType, streamId |-> m.streamId]

\* The header values the client wrote into its i-th chunk
WrittenHeader(i) ==
  [timestamp |-> Chunks[i].timestamp, messageLength |-> Chunks[i].messageLength,
   messageType |-> Chunks[i].messageType, streamId |-> Chunks[i].streamId]

\* C7: a format-3 chunk that starts a message on a csid whose header was set by
\* a format-0 chunk produces a message with exactly the timestamp, length,
\* type and stream id of that format-0 header, and leaves the csid's cache
\* unchanged.
C7_Format3Inherits ==
  \A i \in 1..Len(Steps) : \A j \in 1..Len(Steps) :
    InheritsFromFormat0(i, j) =>
      /\ MessageOfStep(i) = WrittenHeader(j)
      /\ CsidState(Steps[i].post, Steps[i].csid).header = WrittenHeader(j)
      /\ CsidState(Steps[i].pre, Steps[i].csid).header = WrittenHeader(j)

\* Such a format-3 chunk has completed a message in one chunk
C7_Witness ==
  \E i \in 1..Len(Steps) : \E j \in 1..Len(Steps) :
    /\ InheritsFromFormat0(i, j)
    /\ Steps[i].dispatchedAfter > Steps[i].dispatchedBefore
    /\ Len(Dispatched[Steps[i].dispatchedAfter].payload) > 0
    /\ Dispatched[Steps[i].dispatchedAfter].timestamp > 0

\* ---- C8 ----------------------------------------------------------------
HeaderBefore(i) == CsidState(Steps[i].pre, Steps[i].csid).header
HeaderAfter(i) == CsidState(Steps[i].post, Steps[i].csid).header

\* C8: a consumed format-1 chunk adds its delta to the cached timestamp and
\* replaces the cached length and type, keeping the stream id; a consumed
\* format-2 chunk adds its delta and keeps length, type and stream id.
C8_DeltaHeaders ==
  \A i \in 1..Len(Steps) :
    /\ Steps[i].fmt = 1 =>
         /\ HeaderAfter(i).timestamp = HeaderBefore(i).timestamp + Chunks[i].timestamp
         /\ HeaderAfter(i).messageLength = Chunks[i].messageLength
         /\ HeaderAfter(i).messageType = Chunks[i].messageType
         /\ HeaderAfter(i).streamId = HeaderBefore(i).streamId
         /\ CsidState(Steps[i].post, Steps[i].csid).hasStreamId
              = CsidState(Steps[i].pre, Steps[i].csid).hasStreamId
    /\ Steps[i].fmt = 2 =>
         /\ HeaderAfter(i) = [HeaderBefore(i) EXCEPT !.timestamp = @ + Chunks[i].timestamp]
         /\ CsidState(Steps[i].post, Steps[i].csid).hasStreamId
              = CsidState(Steps[i].pre, Steps[i].csid).hasStreamId

\* A format-1 chunk has changed the cached length and type, and a format-2
\* chunk has been consumed, both on a csid with a timestamp cached
C8_Witness ==
  /\ \E i \in 1..Len(Steps) :
       /\ Steps[i].fmt = 1 /\ Chunks[i].timestamp > 0
       /\ HeaderBefore(i).timestamp > 0
       /\ HeaderBefore(i).messageLength # Chunks[i].messageLength
       /\ HeaderBefore(i).messageType # Chunks[i].messageType
       /\ HeaderBefore(i).streamId > 0
  /\ \E i \in 1..Len(Steps) :
       Steps[i].fmt = 2 /\ Chunks[i].timestamp > 0 /\ HeaderBefore(i).timestamp > 0

\* ---- C9 ----------------------------------------------------------------
IsSetChunkSize(d) == d.messageType = MSG_SET_CHUNK_SIZE /\ Len(d.payload) >= 4

\* The value of a Set-Chunk-Size payload with its top bit cleared
Masked31(payload) ==
  (IF payload[1] >= 128 THEN payload[1] - 128 ELSE payload[1]) * 16777216
    + payload[2] * 65536 + payload[3] * 256 + payload[4]

\* The peer chunk size once the first n dispatched messages have completed
ChunkSizeAfter(n) ==
  LET S == {m \in 1..n : IsSetChunkSize(Dispatched[m])}
  IN  IF S = {} THEN InitialChunkSize
      ELSE Masked31(Dispatched[CHOOSE m \in S : \A k \in S : k <= m].payload)

RemainingBefore(i) ==
  IF Steps[i].csid \in DOMAIN Steps[i].pre.incompleteMessages
  THEN LET m == Steps[i].pre.incompleteMessages[Steps[i].csid]
       IN  m.totalLength - m.bytesReceived
  ELSE Steps[i].messageLength

\* C9: every chunk carries min(bytes its message still lacks, peer chunk size)
\* payload bytes, where the peer chunk size is the initial one until a
\* Set-Chunk-Size message with at least 4 payload bytes has completed and
\* from the next chunk on, whatever its csid, the last such value masked to 31
\* bits; these are the payload bytes the client put into the chunk.
C9_ChunkPayloadSize ==
  /\ conn.peerChunkSize = ChunkSizeAfter(Len(Dispatched))
  /\ \A i \in 1..Len(Steps) :
       /\ Len(Steps[i].chunkData)
            = Min(RemainingBefore(i), ChunkSizeAfter(Steps[i].dispatchedBefore))
       /\ Steps[i].chunkData = Chunks[i].payload

\* A partial message was in progress on one csid when a Set-Chunk-Size message
\* completed on another, and its next continuation chunk was cut to the new
\* size
C9_Witness ==
  \E i \in 1..Len(Steps) : \E j \in 1..(i - 1) :
    /\ Steps[j].csid # Steps[i].csid
    /\ Steps[j].dispatchedAfter > Steps[j].dispatchedBefore
    /\ IsSetChunkSize(Dispatched[Steps[j].dispatchedAfter])
    /\ Dispatched[Steps[j].dispatchedAfter].payload[1] >= 128
    /\ Steps[i].csid \in DOMAIN Steps[j].pre.incompleteMessages
    /\ Steps[i].csid \in DOMAIN Steps[i].pre.incompleteMessages
    /\ Steps[i].peerChunkSize # Steps[j].peerChunkSize
    /\ Len(Steps[i].chunkData) = Steps[i].peerChunkSize
    /\ Len(Steps[i].chunkData) < RemainingBefore(i)

\* ---- C10 ---------------------------------------------------------------
\* C10: once the client has written C0 (= 3), C1, C2 and its chunks and the
\* last data event has been handled, the handshake is done, every chunk has
\* been parsed and nothing is left in the buffer.
C10_NoStallAcrossHandshake ==
  (AllDelivered /\ snd.phase = 2 /\ snd.version = RTMP_VERSION) =>
    /\ conn.handshakeState = HANDSHAKE_DONE
    /\ Len(Steps) = Len(Chunks)
    /\ conn.buffer = <<>>

\* ---- C11 ---------------------------------------------------------------
\* The bytes the data event of this step delivers
Delivered == Subarray(wire, 0, Len(wire) - Len(wire'))

\* w is S0 + S1 + S2 for the C1 the client wrote: byte 3, an S1 whose bytes
\* 4-7 are zero, then C1 unchanged
IsHandshakeResponse(w) ==
  /\ Len(w) = 1 + 2 * RTMP_HANDSHAKE_SIZE
  /\ w[1] = RTMP_VERSION
  /\ \A i \in 4..7 : Byte(w, 1 + i) = 0
  /\ SubarrayFrom(w, 1 + RTMP_HANDSHAKE_SIZE) = ClientC1

HandshakeResponses == {i \in 1..Len(conn.written) : IsHandshakeResponse(conn.written[i])}

\* The step in which C0 + C1 are first all buffered with version 3 writes the
\* response, takes exactly C0 + C1 from the buffer and moves to ACK_SENT
RespondsWhenBuffered ==
  (/\ conn' # conn
   /\ conn.handshakeState = UNINITIALIZED
   /\ Len(conn.buffer \o Delivered) >= 1 + RTMP_HANDSHAKE_SIZE
   /\ Byte(conn.buffer \o Delivered, 0) = RTMP_VERSION)
  => /\ conn'.handshakeState = ACK_SENT
     /\ Len(conn'.written) = 1
     /\ IsHandshakeResponse(conn'.written[1])
     /\ conn'.buffer = SubarrayFrom(conn.buffer \o Delivered, 1 + RTMP_HANDSHAKE_SIZE)

\* Before the response nothing is written and C0 + C1 with version 3 are not
\* yet buffered; after it the response is the first write and the only one
RespondsOnce ==
  IF conn.handshakeState = UNINITIALIZED
  THEN /\ conn.written = <<>>
       /\ Len(conn.buffer) >= 1 + RTMP_HANDSHAKE_SIZE => Byte(conn.buffer, 0) # RTMP_VERSION
  ELSE HandshakeResponses = {1}

\* C11: at the first moment C0 + C1 are buffered with version 3 the server
\* writes S0 + S1 + S2 (S1 bytes 4-7 zero, S2 = C1), once per connection,
\* consumes exactly C0 + C1 and moves to ACK_SENT, however the input was
\* split into data events.
C11_HandshakeResponse == [](RespondsOnce) /\ [][RespondsWhenBuffered]_vars

\* The response is written while part of C2 is already buffered and the rest
\* is still to come
C11_Witness ==
  /\ conn.handshakeState = ACK_SENT
  /\ HandshakeResponses = {1}
  /\ conn.buffer # <<>>
  /\ wire # <<>>

\* ---- C12 ---------------------------------------------------------------
\* C12: once C0 + C1 are buffered with a version other than 3 the socket is
\* ended and nothing is written; whatever is delivered afterwards, the phase
\* stays UNINITIALIZED and nothing is ever written.
C12_InvalidVersion ==
  (snd.phase >= 1 /\ snd.version # RTMP_VERSION) =>
    /\ conn.handshakeState = UNINITIALIZED
    /\ conn.written = <<>>
    /\ Len(conn.buffer) >= 1 + RTMP_HANDSHAKE_SIZE => conn.ended

\* The socket was ended and C2 has been delivered as well
C12_Witness ==
  /\ snd.version # RTMP_VERSION
  /\ conn.ended
  /\ Len(conn.buffer) = 1 + 2 * RTMP_HANDSHAKE_SIZE
  /\ wire = <<>>

\* ---- C13 ---------------------------------------------------------------
\* The messages the server has written after its handshake response and its
\* three configuration messages
ConfigWrites == Len(ConnectedConnection.written)
Replies == SubSeq(conn.written, ConfigWrites + 1, Len(conn.written))

MessageTypeOf(w) == Byte(w, 7)
MessagePayloadOf(w) == SubarrayFrom(w, 12)

IsPrefix(p, s) == Len(p) <= Len(s) /\ Subarray(s, 0, Len(p)) = p
Occurs(p, s) == \E o \in 0..Len(s) : Subarray(s, o, o + Len(p)) = p /\ o + Len(p) <= Len(s)

\* w is a command response with this name and this transaction id (a number)
IsCommandResponse(w, name, transactionId) ==
  /\ Len(w) >= 12
  /\ MessageTypeOf(w) = MSG_AMF0_CMD
  /\ IsPrefix(ClientString(name) \o <<0>> \o transactionId, MessagePayloadOf(w))

IsResponseNamed(w, name) ==
  /\ Len(w) >= 12
  /\ MessageTypeOf(w) = MSG_AMF0_CMD
  /\ IsPrefix(ClientString(name), MessagePayloadOf(w))

\* w carries the property key with the string str
HasStringProperty(w, key, str) ==
  Occurs(WriteUIntBE(Len(key), 2) \o key \o ClientString(str), MessagePayloadOf(w))

IsPublishStart(w) ==
  IsResponseNamed(w, STR_onStatus) /\ HasStringProperty(w, STR_code, STR_PublishStart)

\* The command responses among the replies, in the order written
CommandReplies == SelectSeq(Replies, LAMBDA w : Len(w) >= 12 /\ MessageTypeOf(w) = MSG_AMF0_CMD)

SentCommand(i, name, args) ==
  /\ expected[i].cmd.name = name /\ expected[i].cmd.kind = "ok"
  /\ expected[i].cmd.args = args

\* The client has sent connect, createStream and publish("mystream"), each
\* validly encoded, and all of it has been delivered
ScenarioDelivered ==
  /\ Len(expected) = 3 /\ wire = <<>>
  /\ expected[1].cmd.name = STR_connect /\ expected[1].cmd.kind = "ok"
  /\ expected[2].cmd.name = STR_createStream /\ expected[2].cmd.kind = "ok"
  /\ SentCommand(3, STR_publish, <<StringValue(STR_mystream)>>)

\* C13: after connect, createStream, publish("mystream") the server has
\* written a _result for connect, a _result for createStream and an onStatus
\* carrying NetStream.Publish.Start, has called initialize("mystream") exactly
\* once, and its stream key is "mystream".
C13_CommandScenario ==
  ScenarioDelivered =>
    /\ Len(CommandReplies) = 3
    /\ IsCommandResponse(CommandReplies[1], STR_result, NumberOfNat(expected[1].cmd.tid))
    /\ IsCommandResponse(CommandReplies[2], STR_result, NumberOfNat(expected[2].cmd.tid))
    /\ IsPublishStart(CommandReplies[3])
    /\ conn.streamProcessor.initializeCalls = <<StringValue(STR_mystream)>>
    /\ conn.streamKey = StringValue(STR_mystream)

C13_Witness ==
  /\ ScenarioDelivered
  /\ Len(conn.handled) = 3
  /\ conn.streamKey = StringValue(STR_mystream)

\* ---- C14 ---------------------------------------------------------------
\* w is a User-Control message whose event type is 0 (Stream Begin)
IsStreamBegin(w) ==
  /\ Len(w) = 18
  /\ MessageTypeOf(w) = MSG_USER_CONTROL
  /\ Byte(w, 12) = 0 /\ Byte(w, 13) = 0

PublishStarts == {i \in 1..Len(conn.written) : IsPublishStart(conn.written[i])}

\* C14: whatever the order of the commands, when the first onStatus
\* publish-start response is written a Stream-Begin message has been written
\* before it.
C14_StreamBeginBeforePublish ==
  \A i \in PublishStarts :
    \E j \in 1..(i - 1) : IsStreamBegin(conn.written[j])

\* ---- C15 ---------------------------------------------------------------
\* The i-th command message the client sent is the i-th that handleCommand
\* returned from; these are the messages written while it was handled
WritesOf(i) ==
  SubSeq(conn.written, conn.handled[i].writtenBefore + 1, conn.handled[i].writtenAfter)

\* The bytes of a command response as the protocol has them: a format-0 chunk
\* on csid, timestamp 0, stream id 0, then the name, the transaction id and
\* the values
ResponseBytes(csid, name, transactionId, values) ==
  <<csid>> \o <<0, 0, 0>>
    \o WriteUIntBE(Len(ClientString(name) \o <<0>> \o transactionId \o ClientValues(values)), 3)
    \o <<MSG_AMF0_CMD>> \o <<0, 0, 0, 0>>
    \o ClientString(name) \o <<0>> \o transactionId \o ClientValues(values)

IsStreamBeginFor(w, streamId) ==
  IsStreamBegin(w) /\ SubarrayFrom(w, 14) = WriteUIntBE(streamId, 4)

HandledValid(i, name) ==
  /\ i \in 1..Len(conn.handled)
  /\ expected[i].cmd.name = name
  /\ expected[i].cmd.kind = "ok"

\* C15: for every createStream the server writes _result with the request's
\* transaction id, null and stream id 1, and the next message it writes is a
\* Stream-Begin for stream id 1.
C15_CreateStream ==
  \A i \in 1..Len(conn.handled) :
    HandledValid(i, STR_createStream) =>
      /\ Len(WritesOf(i)) = 2
      /\ WritesOf(i)[1] = ResponseBytes(expected[i].csid, STR_result,
                            NumberOfNat(expected[i].cmd.tid),
                            <<NullValue, NumberValue(NumberOfNat(1))>>)
      /\ IsStreamBeginFor(WritesOf(i)[2], 1)

\* A createStream was handled after another command
C15_Witness ==
  \E i \in 2..Len(conn.handled) : HandledValid(i, STR_createStream)

\* ---- C16 ---------------------------------------------------------------
\* handleCommand returns from a publish with the onStatus response written
\* and the initialization it started still pending
PublishAnswersBeforeInitialized(i) ==
  /\ WritesOf(i) # <<>>
  /\ IsPublishStart(WritesOf(i)[1])
  /\ ~conn.handled[i].pre.streamProcessor.pipelineInitialized =>
       Len(conn.handled[i].post.streamProcessor.pending)
         = Len(conn.handled[i].pre.streamProcessor.pending) + 1

\* Every command message delivered has been parsed and handled, whatever the
\* state of the initializations
AllCommandsHandled ==
  wire = <<>> => Len(conn.handled) = Len(expected) /\ conn.buffer = <<>>

\* C16: the onStatus response is written while the publish command is
\* dispatched, before the pipeline's initialization has finished; messages
\* delivered while an initialization is pending or after one has failed are
\* parsed and dispatched; a failed initialization does not end the socket.
C16_PublishDoesNotBlock ==
  /\ \A i \in 1..Len(conn.handled) :
       HandledValid(i, STR_publish) => PublishAnswersBeforeInitialized(i)
  /\ AllCommandsHandled
  /\ ~conn.ended

\* A command was handled while the initialization was pending and another
\* after it had failed
C16_Witness ==
  /\ Len(conn.handled) = 3
  /\ HandledValid(1, STR_publish)
  /\ conn.handled[2].pre.streamProcessor.pending # <<>>
  /\ conn.handled[3].pre.streamProcessor.failures # <<>>
  /\ WritesOf(3) # <<>>

\* ---- C17 ---------------------------------------------------------------
\* The stream key of a publish with these arguments: the first one, or
\* "default" where there is none or it is null or the empty string
KeyFor(args) ==
  IF args = <<>> THEN StringValue(STR_default)
  ELSE IF args[1] = NullValue \/ args[1] = StringValue(<<>>) THEN StringValue(STR_default)
  ELSE args[1]

IsReleaseOrFCPublish(i) ==
  HandledValid(i, STR_releaseStream) \/ HandledValid(i, STR_FCPublish)

\* C18: releaseStream and FCPublish are each answered by exactly one _result
\* with the request's transaction id and two nulls, and leave the stream key,
\* the chunk sizes, the header caches, the partial messages and the
\* acknowledgement counters as they were.
C18_ReleaseStreamFCPublish ==
  \A i \in 1..Len(conn.handled) :
    IsReleaseOrFCPublish(i) =>
      /\ Len(WritesOf(i)) = 1
      /\ MessageTypeOf(WritesOf(i)[1]) = MSG_AMF0_CMD
      /\ MessagePayloadOf(WritesOf(i)[1]) =
           ClientString(STR_result) \o <<0>> \o NumberOfNat(expected[i].cmd.tid)
             \o ClientValues(<<NullValue, NullValue>>)
      /\ conn.handled[i].post = conn.handled[i].pre

\* Both commands were answered, FCPublish after a publish set the stream key
C18_Witness ==
  /\ \E i \in 1..Len(conn.handled) : HandledValid(i, STR_releaseStream)
  /\ \E i \in 1..Len(conn.handled) :
       /\ HandledValid(i, STR_FCPublish)
       /\ conn.handled[i].pre.streamKey # NullValue

\* ---- C19 ---------------------------------------------------------------
KnownCommands ==
  {STR_connect, STR_releaseStream, STR_FCPublish, STR_createStream, STR_publish}

IsUnknownCommand(i) ==
  /\ i \in 1..Len(conn.handled)
  /\ expected[i].cmd.kind = "ok"
  /\ expected[i].cmd.name \notin KnownCommands

\* The well-formed command messages sent after the i-th were parsed and
\* handled under their names
FollowersDispatched(i) ==
  \A j \in (i + 1)..Len(expected) :
    /\ j <= Len(conn.handled)
    /\ expected[j].cmd.kind = "ok" =>
         /\ conn.handled[j].parsed.ok
         /\ conn.handled[j].parsed.command = expected[j].cmd.name
         /\ expected[j].cmd.name \in KnownCommands => WritesOf(j) # <<>>

\* C19: a command with a name outside the five handled ones writes nothing,
\* changes no connection state and does not end the socket, and the messages
\* after it are dispatched.
C19_UnknownCommand ==
  \A i \in 1..Len(conn.handled) :
    IsUnknownCommand(i) =>
      /\ conn.handled[i].parsed.ok
      /\ WritesOf(i) = <<>>
      /\ conn.handled[i].post = conn.handled[i].pre
      /\ ~conn.handled[i].post.ended
      /\ wire = <<>> => FollowersDispatched(i)

\* An unknown command was followed by a createStream that was answered
C19_Witness ==
  \E i \in 1..Len(conn.handled) :
    /\ IsUnknownCommand(i)
    /\ HandledValid(i + 1, STR_createStream)
    /\ WritesOf(i + 1) # <<>>

\* ---- C20 ---------------------------------------------------------------
\* The i-th command message was handled without a response and without a
\* change of the connection's fields, its buffer among them
MalformedIgnored(i) ==
  /\ WritesOf(i) = <<>>
  /\ conn.handled[i].post = conn.handled[i].pre
  /\ ~conn.handled[i].post.ended
  /\ wire = <<>> => FollowersDispatched(i)

\* C20: a command message with a malformed AMF0 payload (a wrong name marker,
\* a wrong transaction-id marker, or a length field that runs past the
\* payload) gets no response and changes no state; the socket stays open,
\* the buffered bytes after it are untouched and the next valid message is
\* dispatched.
C20_MalformedCommand ==
  \A i \in 1..Len(conn.handled) :
    expected[i].cmd.kind \in {"nameMarker", "tidMarker", "nameLength", "argLength"} =>
      MalformedIgnored(i)

\* The same for the payloads with a wrong marker or a name length past the end
MalformedHeadIgnored ==
  \A i \in 1..Len(conn.handled) :
    expected[i].cmd.kind \in {"nameMarker", "tidMarker", "nameLength"} =>
      ~conn.handled[i].parsed.ok /\ MalformedIgnored(i)

\* What the code does with a last string argument whose length field is one
\* more than the bytes that follow: it takes the bytes there are and answers
ArgumentLengthAnswered ==
  \A i \in 1..Len(conn.handled) :
    expected[i].cmd.kind = "argLength" /\ expected[i].cmd.name = STR_releaseStream =>
      /\ conn.handled[i].parsed.ok
      /\ conn.handled[i].parsed.args = expected[i].cmd.args
      /\ WritesOf(i) = <<ResponseBytes(expected[i].csid, STR_result,
                           NumberOfNat(expected[i].cmd.tid),
                           <<NullValue, NullValue>>)>>

\* ---- C21 ---------------------------------------------------------------
\* The chunks of the client that the data events have delivered whole
WholeChunksDelivered ==
  {i \in 1..Len(Chunks) : Chunks[i].end <= Len(sent) - Len(wire)}

\* Every chunk delivered whole has been parsed
WholeChunksParsed == Len(Steps) = Cardinality(WholeChunksDelivered)

\* C21: the promise of handleData is never rejected, and the chunks that
\* follow a message whose handling failed are parsed all the same.
C21_NoErrorPropagates == ~conn.rejected /\ WholeChunksParsed

\* The same on a build whose writeUInt32BE does not check its range
C21_Unchecked == ~conn.rangeChecked => C21_NoErrorPropagates

\* ---- C22 ---------------------------------------------------------------
IsAck(w) == Len(w) = 16 /\ MessageTypeOf(w) = MSG_ACK

\* The 32-bit big-endian form of a count of received bytes
CountBytes(bytes) ==
  WriteUIntBE((conn.countedFrom + bytes \div 65536) % 65536, 2)
    \o WriteUIntBE(bytes % 65536, 2)

\* What the server wrote while it handled the i-th chunk
WritesOfStep(i) == SubSeq(conn.written, Steps[i].writtenBefore + 1, Steps[i].writtenAfter)

AcksOfStep(i) == SelectSeq(WritesOfStep(i), IsAck)

\* The count of received bytes is a window or more past the acknowledged one
\* when the i-th chunk is handled
AckDue(i) == Steps[i].ackDue

\* C22: when the count of received bytes is a window or more past the last
\* acknowledged count, exactly one Acknowledgement is written and it carries
\* the count; no Acknowledgement is written while the count is less than a
\* window past the acknowledged one.
C22_AckTrigger ==
  \A i \in 1..Len(Steps) :
    /\ AckDue(i) =>
         /\ Len(AcksOfStep(i)) = 1
         /\ MessagePayloadOf(AcksOfStep(i)[1]) = CountBytes(Steps[i].ackCount)
    /\ ~AckDue(i) => AcksOfStep(i) = <<>>

\* The same for the chunks that complete no data message, on a build whose
\* writeUInt32BE does not check its range or below 2^32
AckTriggerWithoutData ==
  \A i \in 1..Len(Steps) :
    (/\ ~Steps[i].rejected
     /\ \A d \in (Steps[i].dispatchedBefore + 1)..Steps[i].dispatchedAfter :
          Dispatched[d].messageType \notin {MSG_AMF0_DATA, MSG_AMF3_DATA}) =>
      /\ AckDue(i) =>
           /\ Len(AcksOfStep(i)) = 1
           /\ MessagePayloadOf(AcksOfStep(i)[1]) = CountBytes(Steps[i].ackCount)
           /\ conn.lastAckSent >= Steps[i].ackCount
      /\ ~AckDue(i) => AcksOfStep(i) = <<>>

\* ---- C23 ---------------------------------------------------------------
\* bytesReceived never decreases and lastAckSent never exceeds it
CountersOrdered ==
  [][/\ conn'.bytesReceived >= conn.bytesReceived
     /\ conn'.lastAckSent >= conn.lastAckSent
     /\ conn'.lastAckSent <= conn'.bytesReceived]_vars

\* C23: after every delivery the count of received bytes is less than a
\* window past the acknowledged count, and the acknowledged count is not
\* above the received one.
C23_AckedWithinWindow ==
  /\ conn.lastAckSent <= conn.bytesReceived
  /\ conn.bytesReceived - conn.lastAckSent < conn.windowAckSize

\* The same once every chunk delivered so far was delivered whole, on a build
\* whose writeUInt32BE does not check its range
AckedAfterWholeChunks ==
  (/\ ~conn.rangeChecked
   /\ conn.buffer = <<>>
   /\ Len(Steps) > 0) =>
    C23_AckedWithinWindow

\* ---- C24 ---------------------------------------------------------------
\* C24: parsing the encoding of a command yields the command's name, its
\* transaction id and its arguments, strings, numbers, booleans, nulls and
\* objects with their keys in order.
C24_RoundTrip ==
  call.stage = "parsed" =>
    call.result = [ok |-> TRUE, command |-> call.command,
                   transactionId |-> call.transactionId, args |-> call.args]

\* The arguments that do come back: numbers, objects, and nulls that another
\* argument follows
ComesBack(args) ==
  /\ \A i \in 1..Len(args) : args[i].t \in {"number", "object", "null"}
  /\ args # <<>> => args[Len(args)].t # "null"

RoundTripOfNumbersAndObjects ==
  (call.stage = "parsed" /\ ComesBack(call.args)) =>
    call.result = [ok |-> TRUE, command |-> call.command,
                   transactionId |-> call.transactionId, args |-> call.args]

\* ---- C25 ---------------------------------------------------------------
\* C25: parseAMF0 returns every argument of a well-formed command payload,
\* in order, whatever the kind and the size of the last one.
C25_EveryArgument ==
  \A i \in 1..Len(conn.handled) :
    expected[i].cmd.kind = "ok" =>
      /\ conn.handled[i].parsed.ok
      /\ conn.handled[i].parsed.args = expected[i].cmd.args

\* The same for the payloads that do not end with a value of one byte
EveryArgumentButLastByte ==
  \A i \in 1..Len(conn.handled) :
    (/\ expected[i].cmd.kind = "ok"
     /\ expected[i].cmd.args # <<>> => Last(expected[i].cmd.args).t # "null") =>
      /\ conn.handled[i].parsed.ok
      /\ conn.handled[i].parsed.command = expected[i].cmd.name
      /\ conn.handled[i].parsed.transactionId = NumberOfNat(expected[i].cmd.tid)
      /\ conn.handled[i].parsed.args = expected[i].cmd.args

\* ---- C26 ---------------------------------------------------------------
\* C26: a command payload that holds a value with an unrecognized marker, as
\* an argument or as the value of an object property, fails to decode: the
\* command is not dispatched and nothing is written for it, and the messages
\* after it are decoded and dispatched.
C26_UnknownMarker ==
  \A i \in 1..Len(conn.handled) :
    expected[i].cmd.kind \in {"unknownMarker", "unknownProperty"} =>
      /\ ~conn.handled[i].parsed.ok
      /\ MalformedIgnored(i)

\* What the code does with them: the arguments end before the unknown
\* marker, the property is left out, and the command is answered
UnknownMarkerAnswered ==
  \A i \in 1..Len(conn.handled) :
    /\ expected[i].cmd.kind = "unknownMarker" =>
         /\ conn.handled[i].parsed.ok /\ conn.handled[i].parsed.args = <<>>
         /\ Len(WritesOf(i)) = 1
    /\ expected[i].cmd.kind = "unknownProperty" =>
         /\ conn.handled[i].parsed.ok
         /\ conn.handled[i].parsed.args = <<ObjectValue(<<>>)>>
         /\ Len(WritesOf(i)) = 1

\* ---- C27 ---------------------------------------------------------------
\* C27: the number read from the payload that sendSetChunkSize,
\* sendWindowAckSize, sendSetPeerBandwidth or sendAck wrote is the number
\* passed to the function, for every 32-bit value.
C27_ControlRoundTrip ==
  call.stage = "received" =>
    /\ call.result.decoded
    /\ call.result.size = call.value

\* The same without sendAck, and for sendSetChunkSize below 2^31
ControlRoundTripBelowTopBit ==
  (/\ call.stage = "received"
   /\ call.function # "sendAck"
   /\ call.function = "sendSetChunkSize" => call.value >= 0) =>
    /\ call.result.decoded
    /\ call.result.size = call.value
    /\ call.function = "sendSetChunkSize" => conn.peerChunkSize = call.value

\* ---- C28 ---------------------------------------------------------------
\* A format-0 chunk with a one-byte basic header, timestamp 0, the length of
\* the payload that follows, and message stream id 0
IsFormat0Message(w) ==
  /\ Len(w) >= 12
  /\ w[1] \in 2..63
  /\ Subarray(w, 1, 4) = <<0, 0, 0>>
  /\ ReadUIntBE(w, 4, 3) = Len(w) - 12
  /\ Subarray(w, 8, 12) = <<0, 0, 0, 0>>

\* C28: every message written after the handshake response is one
\* well-formed format-0 chunk on a csid in 2..63, with timestamp 0, the
\* length of its payload and stream id 0; a command response is on the csid
\* its command came on.
C28_WellFormedWrites ==
  /\ \A k \in 2..Len(conn.written) : IsFormat0Message(conn.written[k])
  /\ \A i \in 1..Len(conn.handled) :
       \A k \in (conn.handled[i].writtenBefore + 1)..conn.handled[i].writtenAfter :
         MessageTypeOf(conn.written[k]) = MSG_AMF0_CMD =>
           conn.written[k][1] = expected[i].csid

\* The same for the commands that come on a csid below 64
WellFormedWritesBelow64 ==
  /\ \A i \in 1..Len(conn.handled) :
       expected[i].csid < 64 =>
         \A k \in (conn.handled[i].writtenBefore + 1)..conn.handled[i].writtenAfter :
           /\ IsFormat0Message(conn.written[k])
           /\ MessageTypeOf(conn.written[k]) = MSG_AMF0_CMD =>
                conn.written[k][1] = expected[i].csid
  /\ \A k \in 2..ConfigWrites : IsFormat0Message(conn.written[k])

\* ---- C29 ---------------------------------------------------------------
\* C29: every Stream-Begin the server writes has six payload bytes, event
\* type 0 and then the id of the stream it announces, which is 1, the one
\* written while publish is handled included.
C29_StreamBeginPayload ==
  \A k \in 1..Len(conn.written) :
    MessageTypeOf(conn.written[k]) = MSG_USER_CONTROL =>
      IsStreamBeginFor(conn.written[k], 1)

\* The Stream-Begin of publish carries 00 00 00 01 00 00: the four bytes of
\* the stream id are written over the event type
PublishStreamBeginBytes ==
  \A i \in 1..Len(conn.handled) :
    HandledValid(i, STR_publish) =>
      /\ Len(WritesOf(i)) = 2
      /\ MessagePayloadOf(WritesOf(i)[2]) = <<0, 0, 0, 1, 0, 0>>

\* ---- C30 ---------------------------------------------------------------
IsAudioOrVideo(d) == d.messageType \in {MSG_AUDIO, MSG_VIDEO}

\* The completed audio and video messages, in the order they completed
AudioVideoMessages == SelectSeq(Dispatched, IsAudioOrVideo)

BufferCalls == conn.streamProcessor.calls

MethodFor(messageType) ==
  IF messageType = MSG_AUDIO THEN "processAudioBuffer" ELSE "processVideoBuffer"

\* C30: every completed audio message causes one call of processAudioBuffer
\* and every completed video message one call of processVideoBuffer, in the
\* order of completion, with the message's payload and its timestamp; no
\* command is dispatched and nothing is written for it.
C30_AudioVideoForwarded ==
  /\ Len(BufferCalls) = Len(AudioVideoMessages)
  /\ \A k \in 1..Len(BufferCalls) :
       /\ BufferCalls[k].method = MethodFor(AudioVideoMessages[k].messageType)
       /\ BufferCalls[k].arguments = <<AudioVideoMessages[k].payload,
                                       AudioVideoMessages[k].timestamp>>
  /\ conn.commands = <<>>

\* What is forwarded is the payload alone
PayloadForwarded ==
  /\ Len(BufferCalls) = Len(AudioVideoMessages)
  /\ \A k \in 1..Len(BufferCalls) :
       /\ BufferCalls[k].method = MethodFor(AudioVideoMessages[k].messageType)
       /\ BufferCalls[k].arguments = <<AudioVideoMessages[k].payload>>
  /\ conn.commands = <<>>
  /\ \A i \in 1..Len(Steps) :
       \A w \in {WritesOfStep(i)[k] : k \in 1..Len(WritesOfStep(i))} : IsAck(w)

\* ---- C32 ---------------------------------------------------------------
\* Where the last chunk that the loop consumed ends in the client's bytes
ConsumedEnd ==
  IF Len(Steps) = 0 \/ Len(Steps) > Len(Chunks) THEN 0 ELSE Chunks[Len(Steps)].end

\* The bytes taken from the buffer are the whole chunks the loop consumed
WholeChunksConsumed == Len(conn.buffer) = (Len(sent) - Len(wire)) - ConsumedEnd

\* C32: after every pass of the loop the bytes removed from the buffer are a
\* whole number of complete chunks, and the bytes left do not begin with a
\* complete chunk.
C32_WholeChunksOnly ==
  conn.handshakeState = HANDSHAKE_DONE =>
    /\ Len(Steps) <= Len(Chunks)
    /\ WholeChunksConsumed
    /\ WholeChunksParsed

\* A chunk whose first byte is zero: format 0 with the 2-byte basic header
ZeroFirstByte(i) == Chunks[i].fmt = 0 /\ Chunks[i].form = 2

\* No partial chunk is consumed, and a whole chunk is left only behind a
\* chunk whose first byte is zero
WholeChunksUnlessZeroByte ==
  conn.handshakeState = HANDSHAKE_DONE =>
    /\ Len(Steps) <= Len(Chunks)
    /\ WholeChunksConsumed
    /\ (\A i \in 1..Len(Chunks) : ~ZeroFirstByte(i)) => WholeChunksParsed
    /\ \A i \in WholeChunksDelivered :
         i > Len(Steps) => \E j \in (Len(Steps) + 1)..i : ZeroFirstByte(j)

\* ---- C33 ---------------------------------------------------------------
RECURSIVE ConsumedFrom(_, _)
\* The bytes the iterations recorded after the first `from` took from the
\* buffer: each its header and its chunk data
ConsumedFrom(steps, from) ==
  IF from >= Len(steps) THEN 0
  ELSE steps[from + 1].headerSize + Len(steps[from + 1].chunkData)
         + ConsumedFrom(steps, from + 1)

\* A pass over the n bytes that the buffer holds once the delivery is added:
\* every iteration it records shortened the buffer, and with the iteration
\* that leaves the loop on a buffer not yet empty there are at most n
PassBounded ==
  conn.handshakeState = HANDSHAKE_DONE /\ wire' # wire =>
    /\ \A i \in (Len(Steps) + 1)..Len(conn'.steps) :
         conn'.steps[i].headerSize + Len(conn'.steps[i].chunkData) >= 1
    /\ Len(conn'.buffer) =
         Len(conn.buffer) + Len(Delivered) - ConsumedFrom(conn'.steps, Len(Steps))
    /\ (Len(conn'.steps) - Len(Steps)) + (IF Len(conn'.buffer) > 0 THEN 1 ELSE 0)
         <= Len(conn.buffer) + Len(Delivered)

\* C33: every pass of the loop ends: an iteration either leaves the loop or
\* shortens the buffer, so a pass over n bytes has at most n iterations.
C33_PassTerminates == [][PassBounded]_vars

\* Chunks were consumed and a pass stopped on bytes it could not use
C33_Witness ==
  /\ conn.handshakeState = HANDSHAKE_DONE
  /\ Len(Steps) >= 2
  /\ wire = <<>>
  /\ Len(conn.buffer) > 0

\* ---- C34 ---------------------------------------------------------------
\* The partial message of csid holds all the bytes of its message
Completed(csid) ==
  conn.incompleteMessages[csid].bytesReceived >= conn.incompleteMessages[csid].totalLength

\* The k-th message handed to handleCompleteMessage is the k-th the client sent
DispatchedInOrder ==
  /\ Len(Dispatched) <= Len(expected)
  /\ \A k \in 1..Len(Dispatched) :
       /\ Dispatched[k].payload = expected[k].payload
       /\ Dispatched[k].messageType = expected[k].messageType
       /\ Dispatched[k].csid = expected[k].csid

\* C34: every reassembled message is dispatched once: the partial message of
\* a csid is removed in the step in which it becomes complete, and no later
\* chunk on the csid sees it, dispatches its payload again or extends it.
C34_DispatchedOnce ==
  /\ \A csid \in DOMAIN conn.incompleteMessages : ~Completed(csid)
  /\ DispatchedInOrder

\* The same where no exception leaves handleCompleteMessage: on a build whose
\* writeUInt32BE does not check its range
DispatchedOnceUnchecked == ~conn.rangeChecked => C34_DispatchedOnce

\* A completed partial message that stayed is dispatched again by the next
\* chunk on its csid
DispatchedTwice ==
  \E k \in 1..(Len(Dispatched) - 1) :
    /\ Dispatched[k].csid = Dispatched[k + 1].csid
    /\ Dispatched[k].payload = Dispatched[k + 1].payload
    /\ Len(Dispatched[k].payload) > InitialChunkSize
    /\ Len(Dispatched) > Len(expected)

\* ---- C35 ---------------------------------------------------------------
\* The data messages handed to handleCompleteMessage while the i-th chunk was
\* handled
DataMessagesOfStep(i) ==
  {d \in (Steps[i].dispatchedBefore + 1)..Steps[i].dispatchedAfter :
     Dispatched[d].messageType \in {MSG_AMF0_DATA, MSG_AMF3_DATA}}

\* C35: every Acknowledgement comes from the window check: it is written
\* when the count of received bytes is a window or more past the
\* acknowledged count, it is the only one of its step, it carries the count,
\* and the acknowledged count is then that count; no received message of any
\* type causes one.
C35_AcksFromWindowCheck ==
  \A i \in 1..Len(Steps) :
    \A k \in 1..Len(AcksOfStep(i)) :
      /\ AckDue(i)
      /\ Len(AcksOfStep(i)) = 1
      /\ MessagePayloadOf(AcksOfStep(i)[k]) = CountBytes(Steps[i].ackCount)
      /\ conn.lastAckSent >= Steps[i].ackCount

\* What is written instead: one Acknowledgement for the window check when it
\* is due, and one for every data message, each with the count of received
\* bytes
AcksFromWindowCheckAndData ==
  \A i \in 1..Len(Steps) :
    ~Steps[i].rejected =>
      /\ Len(AcksOfStep(i)) =
           (IF AckDue(i) THEN 1 ELSE 0) + Cardinality(DataMessagesOfStep(i))
      /\ AckDue(i) =>
           /\ MessagePayloadOf(AcksOfStep(i)[Len(AcksOfStep(i))])
                = CountBytes(Steps[i].ackCount)
           /\ conn.lastAckSent >= Steps[i].ackCount

\* A data message below the window was answered with an Acknowledgement
AckForDataMessage ==
  \E i \in 1..Len(Steps) :
    ~AckDue(i) /\ DataMessagesOfStep(i) # {} /\ Len(AcksOfStep(i)) = 1

\* ---- C36 ---------------------------------------------------------------
\* A protocol control message as the protocol has it: a format-0 chunk on
\* chunk stream 2, timestamp 0, message stream 0
ControlMessageBytes(messageType, payload) ==
  <<2, 0, 0, 0>> \o WriteUIntBE(Len(payload), 3) \o <<messageType>> \o <<0, 0, 0, 0>>
    \o payload

ServerConfigBytes ==
  << ControlMessageBytes(1, WriteUIntBE(4096, 4)),
     ControlMessageBytes(5, WriteUIntBE(2500000, 4)),
     ControlMessageBytes(6, WriteUIntBE(2500000, 4) \o <<2>>) >>

IsConfigMessage(w) ==
  Len(w) >= 12 /\ MessageTypeOf(w) \in {MSG_SET_CHUNK_SIZE, MSG_WINDOW_ACK_SIZE, MSG_SET_PEER_BW}

\* C36: on entering HANDSHAKE_DONE the server writes Set Chunk Size 4096,
\* Window Acknowledgement Size 2500000 and Set Peer Bandwidth 2500000 with
\* limit type 2, in this order and once, right after the handshake response
\* and before it parses a chunk; its chunk size is 4096 from then on.
C36_ServerConfig ==
  /\ conn.handshakeState # HANDSHAKE_DONE => Len(conn.written) <= 1
  /\ conn.handshakeState = HANDSHAKE_DONE =>
       /\ Len(conn.written) >= 4
       /\ SubSeq(conn.written, 2, 4) = ServerConfigBytes
       /\ \A k \in 5..Len(conn.written) : ~IsConfigMessage(conn.written[k])
       /\ conn.chunkSize = 4096
       /\ \A i \in 1..Len(Steps) : Steps[i].writtenBefore >= 4

\* The configuration was written and chunks that came with C2 were parsed
C36_Witness ==
  /\ conn.handshakeState = HANDSHAKE_DONE
  /\ Len(conn.written) = 4
  /\ Len(Steps) >= 2
  /\ Steps[1].writtenBefore = 4

\* ---- C37 ---------------------------------------------------------------
\* The fields a protocol control message of the peer could change
ControlFields ==
  {"windowAckSize", "peerBandwidth", "chunkSize", "peerChunkSize",
   "lastTimestamp", "lastMessageLength", "lastMessageType", "lastMessageStreamId",
   "incompleteMessages"}

\* C37: a Window Acknowledgement Size, Set Peer Bandwidth, Acknowledgement,
\* Abort or User Control message of the peer leaves the window, the peer
\* bandwidth, both chunk sizes, the header caches and the partial messages
\* as they were.
C37_InboundControlFrame ==
  call.stage = "inbound" =>
    /\ \A f \in ControlFields : CommandFrame(conn)[f] = call.pre[f]
    /\ conn.windowAckSize = InitialWindowAckSize
    /\ Len(conn.written) = call.writtenBefore

\* An Abort for the chunk stream that holds a partial message was received
\* after the peer's chunk size had been changed
C37_Witness ==
  /\ call.stage = "inbound"
  /\ call.inbound.messageType = MSG_ABORT
  /\ 3 \in DOMAIN conn.incompleteMessages
  /\ conn.peerChunkSize = 128

\* A Window Acknowledgement Size of the peer was received
WindowAckSizeReceived ==
  /\ call.stage = "inbound"
  /\ call.inbound.messageType = MSG_WINDOW_ACK_SIZE
  /\ Len(call.inbound.payload) >= 4
  /\ conn.windowAckSize = InitialWindowAckSize

\* ---- C38 ---------------------------------------------------------------
\* C38: the peer chunk size is at least 1 in every state, every chunk of a
\* message that lacks bytes carries at least one of them, and a message is
\* complete once its bytes have been delivered.
C38_PeerChunkSizePositive ==
  /\ conn.peerChunkSize >= 1
  /\ \A i \in 1..Len(Steps) :
       RemainingBefore(i) > 0 => Len(Steps[i].chunkData) >= 1
  /\ \A csid \in DOMAIN conn.incompleteMessages :
       conn.incompleteMessages[csid].bytesReceived >= 1

\* The peer chunk size is zero after a Set Chunk Size of zero and at least 1
\* otherwise
PeerChunkSizeZeroWhenSet ==
  /\ conn.peerChunkSize >= 0
  /\ conn.peerChunkSize = 0 =>
       \E k \in 1..Len(Dispatched) :
         /\ IsSetChunkSize(Dispatched[k])
         /\ Masked31(Dispatched[k].payload) = 0

\* With a peer chunk size of zero a partial message is held that has no bytes
\* and gets none from the chunks that continue it
EmptyPartialMessage ==
  \E i \in 1..Len(Steps) :
    /\ Steps[i].peerChunkSize = 0
    /\ Steps[i].csid \in DOMAIN Steps[i].pre.incompleteMessages
    /\ Steps[i].chunkData = <<>>
    /\ Steps[i].csid \in DOMAIN Steps[i].post.incompleteMessages
    /\ Steps[i].post.incompleteMessages[Steps[i].csid].bytesReceived = 0

\* ---- C39 ---------------------------------------------------------------
\* C39: for every count of received bytes, counts of 2^32 and more included,
\* the window check writes a well-formed Acknowledgement whose four bytes
\* are the count modulo 2^32, and the loop goes on with the next chunk.
C39_AckCarriesCount ==
  \A i \in 1..Len(Steps) :
    /\ ~Steps[i].rejected
    /\ AckDue(i) =>
         /\ AcksOfStep(i) # <<>>
         /\ MessagePayloadOf(Last(AcksOfStep(i))) = CountBytes(Steps[i].ackCount)

\* The same for counts below 2^32, and for all counts on a build whose
\* writeUInt32BE does not check its range
AckCarriesCountInRange ==
  (conn.countedFrom = 0 \/ ~conn.rangeChecked) => C39_AckCarriesCount

\* A count of 2^32 or more was acknowledged by its low 32 bits
CountWrapped ==
  \E i \in 1..Len(Steps) :
    /\ AckDue(i)
    /\ conn.countedFrom + Steps[i].ackCount \div 65536 >= 65536
    /\ AcksOfStep(i) # <<>>
    /\ Subarray(MessagePayloadOf(Last(AcksOfStep(i))), 0, 2) = <<0, 0>>

\* On a build that checks the range the window check threw and wrote nothing
CountRejected ==
  \E i \in 1..Len(Steps) :
    AckDue(i) /\ Steps[i].rejected /\ AcksOfStep(i) = <<>>

\* ---- C40 ---------------------------------------------------------------
\* The publish commands whose initialize call found the pipeline not yet
\* initialized
PublishesBeforeInitialized ==
  {i \in 1..Len(conn.handled) :
     /\ HandledValid(i, STR_publish)
     /\ ~conn.handled[i].pre.streamProcessor.pipelineInitialized}

\* C40: at most one pipeline is created and started between cleanups, also
\* when initialize is called again before an earlier call has finished.
C40_OnePipeline == conn.streamProcessor.pipelines <= 1

\* A call of initialize that finds the pipeline initialized creates none
OnePipelinePerEarlyCall ==
  /\ conn.streamProcessor.pipelines <= Cardinality(PublishesBeforeInitialized)
  /\ Len(conn.streamProcessor.pending) + conn.streamProcessor.pipelines
       + Len(conn.streamProcessor.failures) <= Cardinality(PublishesBeforeInitialized)

\* A second publish after the first initialization finished created no
\* second pipeline
LatePublishCreatesNone ==
  /\ \E i \in 1..Len(conn.handled) :
       /\ HandledValid(i, STR_publish)
       /\ conn.handled[i].pre.streamProcessor.pipelineInitialized
  /\ conn.streamProcessor.pipelines = 1
  /\ conn.streamProcessor.pending = <<>>

\* ---- C31 ---------------------------------------------------------------
\* Every call of handleData begins when the call before it has ended
OneAtATime ==
  \A j \in 1..Len(call.log) :
    IF j % 2 = 1 THEN call.log[j].event = "begin"
    ELSE call.log[j].event = "end" /\ call.log[j].id = call.log[j - 1].id

\* C31: the deliveries of a connection are handled one after the other: a
\* call of handleData changes the buffer, the header caches and the partial
\* messages only when every earlier call has run to its end, although the
\* calls suspend at their awaits and the data callback does not await them.
C31_SerialDeliveries ==
  /\ Len(call.inflight) <= 1
  /\ OneAtATime
  /\ call.inflight = <<>> =>
       [conn EXCEPT !.awaitsInitialize = FALSE]
         = [call.atomic EXCEPT !.awaitsInitialize = FALSE]

\* A call is suspended after it handled a publish, with chunks left in its
\* buffer, the initialization pending and the next delivery waiting
C31_Witness ==
  /\ Len(call.inflight) = 1
  /\ ~call.inflight[1].left
  /\ conn.streamProcessor.pending # <<>>
  /\ Len(conn.buffer) > 0
  /\ wire # <<>>

====
